---- MODULE Spec2Model ----
(***************************************************************************)
(* NoiseShaper offline export: the WorkerPool (js/audio/workerPool.js),    *)
(* the SimpleAudioExporter chunked render paths and the ExportManager      *)
(* clip loop, as one state machine.  One step of the machine is one task   *)
(* of the browser's event loop on the control thread (a click, a timer, a  *)
(* worker message), together with the promise continuations (microtasks)   *)
(* that the task triggers.                                                 *)
(***************************************************************************)
EXTENDS Integers, Sequences, FiniteSets, TLC

(***************************************************************************)
(* Bounds of the model.                                                    *)
(***************************************************************************)
PoolSize == 2            \* this.poolSize (hardware dependent, 1..8)
SamplesPerTenSec == 2    \* scaled export sample rate: samples per 10 s
MaxDuration == 35        \* longest clip duration, in seconds
MaxClips == 2            \* largest settings.clips
MaxRenders == 2          \* clip renders over the life of the page
MaxFaults == 5           \* worker failures (chunkError / onerror) injected
BadChunks == 1           \* chunks 0 .. BadChunks-1 may fail with chunkError
FlakyWorkers == 1        \* workers 0 .. FlakyWorkers-1 may raise error events
NumConfigs == 2          \* distinct values of the live configuration
SilenceSamples == 1      \* scaled length of the silence block between clips
DurationBaseMs == 600000 \* shortest clip duration of SpecChunks, milliseconds
DurationSpanMs == 20     \* its durations: DurationBaseMs .. DurationBaseMs + span
MaxPending == 2          \* port messages, gain ramps, stop timers in flight, each
MaxFilters == 2          \* filters in a chain, those being added included
MaxFilterNodes == 3      \* filter nodes created over the life of a chain
MaxTracks == 2           \* tracks of the manager at one time
MaxTrackObjects == 3     \* Track objects created over the life of the manager
MaxSamples == 180        \* length of the input stream fed to the STFT processor
MaxBlockErrors == 1      \* blocks whose processing throws
MaxResizes == 1          \* changes of the host's block size
MaxMixTracks == 2        \* tracks of a rendered track configuration
MaxMixFilters == 1       \* filters of a rendered track

(***************************************************************************)
(* Program constants.                                                      *)
(***************************************************************************)
maxRetries == 3               \* WorkerPool.maxRetries
WorkerErrorLimit == 3         \* handleWorkerError: errorCount > 3
ParChunkSeconds == 10         \* exportChunkedParallel chunkDurationSeconds
SeqChunkSeconds == 30         \* exportChunked(Sequential) chunkDurationSeconds

Workers == 0 .. (PoolSize - 1)
NoJob == -1
Configs == 0 .. (NumConfigs - 1)
NoCfg == [tracks |-> -1, settings |-> -1]

(***************************************************************************)
(* State.                                                                  *)
(*   pool      the WorkerPool object, its jobs, worker threads and timers  *)
(*   exporter  SimpleAudioExporter.workersSupported / workersInitialized   *)
(*   render    the exportSimple call in progress (one clip)                *)
(*   em        ExportManager: startExport / performExport                  *)
(*   live      the live track configuration and the export form            *)
(*   budget    what the environment may still do in this run (see Budgets) *)
(*   form      the values of the export dialog's processing controls       *)
(*   calc      the chunk loop of one render at a real sample rate and      *)
(*             length, lengths and offsets only (see SpecChunks)           *)
(*   track     one Track of the live mixer with its gain node, its noise   *)
(*             processor and the messages and timers in flight             *)
(*   chain     one FilterChain: its filters, the connections of its audio  *)
(*             nodes, the advanced filters still waiting for their         *)
(*             processor, and the last call with its outcome               *)
(*   tm        the TrackManager: its tracks, as far as the manager reads   *)
(*             and writes them, and the last call with its outcome         *)
(*   focus     the object the calls of SpecMixer go to                     *)
(***************************************************************************)
VARIABLES pool, exporter, render, em, live, budget, form, calc, track, chain,
          tm, focus, stft, analyzer, mix

\* the live audio graph
audio == <<track, chain, tm, focus, stft, analyzer, mix>>

\* what no step of the export machine changes
fixed == <<form, calc, audio>>

vars == <<pool, exporter, render, em, live, budget, fixed>>

(***************************************************************************)
(* Array helpers (Array.prototype.indexOf / splice, Float32Array.set).     *)
(***************************************************************************)
Range(s) == {s[i] : i \in 1 .. Len(s)}

IndexOf(s, x) ==
    IF x \in Range(s) THEN CHOOSE i \in 1 .. Len(s) : s[i] = x /\ \A k \in 1 .. (i - 1) : s[k] # x
    ELSE 0

\* splice(indexOf(x), 1) when indexOf(x) >= 0: removes the first occurrence only
RemoveFirst(s, x) ==
    LET i == IndexOf(s, x) IN
    IF i = 0 THEN s
    ELSE SubSeq(s, 1, i - 1) \o SubSeq(s, i + 1, Len(s))

\* typedArray.set(data, off)
SetAt(buf, data, off) ==
    [k \in 1 .. Len(buf) |->
        IF k > off /\ k <= off + Len(data) THEN data[k - off] ELSE buf[k]]

(***************************************************************************)
(* JavaScript numbers.  Number is IEEE-754 binary64: a quotient or product *)
(* is the exact result rounded to 53 significant bits, ties to even.  A    *)
(* positive number is held here as the bits of its significand, most       *)
(* significant first, and the exponent of its last bit:                    *)
(*     value = NatOfBits(bits) * 2^exp.                                    *)
(* Only positive operands occur, dividends below 2^31, divisors and        *)
(* multipliers below 2^23; the arithmetic goes a byte at a time so that no *)
(* intermediate value leaves 32 bits.                                      *)
(***************************************************************************)
SignificandBits == 53
ByteBits == 8
QuotientBytes == 11      \* fraction bits computed: enough for 53 after 2^-31

RECURSIVE Pow2(_)
Pow2(e) ==
    IF e = 0 THEN 1
    ELSE LET h == Pow2(e \div 2) IN IF e % 2 = 0 THEN h * h ELSE 2 * h * h

\* the low `width` bits of n, most significant first
FixedBits(n, width) == [i \in 1 .. width |-> (n \div Pow2(width - i)) % 2]

StripZeros(b) ==
    IF \A i \in 1 .. Len(b) : b[i] = 0 THEN <<>>
    ELSE LET first == CHOOSE i \in 1 .. Len(b) :
                          b[i] = 1 /\ \A k \in 1 .. (i - 1) : b[k] = 0
         IN SubSeq(b, first, Len(b))

BitsOfNat(n) == StripZeros(FixedBits(n, 31))

RECURSIVE NatOfBits(_)
NatOfBits(b) ==
    IF b = <<>> THEN 0
    ELSE IF Len(b) = 1 THEN b[1]
    ELSE LET half == Len(b) \div 2
         IN NatOfBits(SubSeq(b, 1, half)) * Pow2(Len(b) - half)
            + NatOfBits(SubSeq(b, half + 1, Len(b)))

\* b + 1: one bit longer than b when b is all ones
Increment(b) ==
    IF \A i \in 1 .. Len(b) : b[i] = 1 THEN <<1>> \o [i \in 1 .. Len(b) |-> 0]
    ELSE LET last == CHOOSE i \in 1 .. Len(b) :
                         b[i] = 0 /\ \A k \in (i + 1) .. Len(b) : b[k] = 1
         IN [i \in 1 .. Len(b) |-> IF i < last THEN b[i] ELSE IF i = last THEN 1 ELSE 0]

\* round an exact value (bits, exp, and sticky: a nonzero remainder below the
\* last bit) to SignificandBits bits, ties to even
RoundToDouble(bits, exp, sticky) ==
    LET b == StripZeros(bits)
        extra == Len(b) - SignificandBits
    IN IF extra <= 0 THEN [bits |-> b, exp |-> exp]
       ELSE LET kept == SubSeq(b, 1, SignificandBits)
                guard == b[SignificandBits + 1]
                rest == sticky \/ \E i \in (SignificandBits + 2) .. Len(b) : b[i] = 1
                up == guard = 1 /\ (rest \/ kept[SignificandBits] = 1)
                r == IF up THEN Increment(kept) ELSE kept
            IN IF Len(r) > SignificandBits
               THEN [bits |-> SubSeq(r, 1, SignificandBits), exp |-> exp + extra + 1]
               ELSE [bits |-> r, exp |-> exp + extra]

\* the next k bytes of the binary expansion of r / d (r < d), after the bits
\* in acc, and what remains
RECURSIVE FractionBits(_, _, _, _)
FractionBits(r, d, k, acc) ==
    IF k = 0 THEN [bits |-> acc, rem |-> r]
    ELSE FractionBits((r * Pow2(ByteBits)) % d, d, k - 1,
                      acc \o FixedBits((r * Pow2(ByteBits)) \div d, ByteBits))

\* a / b
Divide(a, b) ==
    LET f == FractionBits(a % b, b, QuotientBytes, BitsOfNat(a \div b))
    IN RoundToDouble(f.bits, 0 - QuotientBytes * ByteBits, f.rem # 0)

\* the bits of the exact product of b and n: the bits before acc, taken a
\* group of 7 at a time from the last one up, with the carry rippling upwards
RECURSIVE ProductBits(_, _, _, _)
ProductBits(b, n, carry, acc) ==
    IF b = <<>> THEN BitsOfNat(carry) \o acc
    ELSE LET cut == IF Len(b) > 7 THEN Len(b) - 7 ELSE 0
             t == NatOfBits(SubSeq(b, cut + 1, Len(b))) * n + carry
         IN ProductBits(SubSeq(b, 1, cut), n, t \div Pow2(Len(b) - cut),
                        FixedBits(t % Pow2(Len(b) - cut), Len(b) - cut) \o acc)

\* x * n
Multiply(x, n) == RoundToDouble(ProductBits(x.bits, n, 0, <<>>), x.exp, FALSE)

\* Math.floor(x)
Floor(x) ==
    IF x.exp >= 0 THEN NatOfBits(x.bits) * Pow2(x.exp)
    ELSE IF 0 - x.exp >= Len(x.bits) THEN 0
    ELSE NatOfBits(SubSeq(x.bits, 1, Len(x.bits) + x.exp))

\* Math.floor((a / b) * n)
FloorDivMul(a, b, n) == Floor(Multiply(Divide(a, b), n))

(***************************************************************************)
(* Samples.  A sample is not a number here but a record of what it was     *)
(* computed from: the chunk whose placeholder array was handed to the      *)
(* chunk pipeline, the configuration the pipeline read, and the            *)
(* post-processing passes (fade envelope, peak normalization) applied to   *)
(* it since, each with the length of the signal the pass ran over.         *)
(***************************************************************************)
ZeroSample == [chunk |-> -1, cfg |-> NoCfg, post |-> <<>>]

\* floor(chunkDurationSeconds * sampleRate)
ChunkSamples(seconds) == (seconds * SamplesPerTenSec) \div 10

\* Math.ceil(totalSamples / chunkSamples)
CeilDiv(a, b) == (a + b - 1) \div b

\* FFTProcessorWorker.processChunk / SimpleAudioExporter.processChunk: the
\* mixed chunk has the placeholder's length and is a function of the
\* configuration the pipeline was given
\* SimpleAudioExporter.normalizeSignal / applyFadeEnvelope over a whole signal
ApplyPass(signal, op) ==
    [k \in 1 .. Len(signal) |->
        [signal[k] EXCEPT !.post = Append(@, [op |-> op, over |-> Len(signal)])]]

NormalizeSignal(signal) == ApplyPass(signal, "norm")

ApplyFadeEnvelope(signal) == ApplyPass(signal, "fade")

\* faulty variant: a chunk pipeline that normalizes every chunk it mixes, as
\* the direct export does with its whole signal
MixedDataNormalized(chunk, len, cfg) ==
    NormalizeSignal([k \in 1 .. len |-> [chunk |-> chunk, cfg |-> cfg, post |-> <<>>]])

MixedData(chunk, len, cfg) ==
    [k \in 1 .. len |-> [chunk |-> chunk, cfg |-> cfg, post |-> <<>>]]

(***************************************************************************)
(* The worker pool.  p is the pool object together with the job objects    *)
(* it references (p.jobs, indexed by job id + 1), the message queues of    *)
(* its worker threads (p.inbox), the pending retry timers (p.timers) and   *)
(* the terminated workers (p.terminated).                                  *)
(***************************************************************************)
\* What the chunk pipeline reads through the trackConfig / settings objects
\* it was handed: getExportConfig and generateClipAudio build them from fresh
\* object literals holding copies of primitive values
\* faulty variant: the pipeline reading the live track objects instead
ReadConfigAliased(snapshot) == [tracks |-> live, settings |-> snapshot.settings]

ReadConfig(snapshot) == snapshot

NoMsg == [jobId |-> NoJob, chunk |-> -1, len |-> 0, cfg |-> NoCfg]

JobOf(p, id) == p.jobs[id + 1]

\* worker.postMessage: a terminated worker receives nothing
PostMessage(p, w, msg) ==
    IF w \in p.terminated THEN p
    ELSE [p EXCEPT !.inbox[w] = Append(@, msg)]

\* worker.terminate(): the worker stops and its queued messages are dropped
TerminateWorker(p, w) ==
    [p EXCEPT !.terminated = @ \cup {w}, !.inbox[w] = <<>>]

\* faulty variant: a release that leaves the worker in the busy set
ReleaseWorkerStillBusy(p, w) ==
    [p EXCEPT !.currentJob[w] = NoJob,
              !.workerJobs[w] = NoJob,
              !.availableWorkers = Append(@, w)]

ReleaseWorker(p, w) ==
    [p EXCEPT !.currentJob[w] = NoJob,
              !.busyWorkers = @ \ {w},
              !.workerJobs[w] = NoJob,
              !.availableWorkers = Append(@, w)]

AssignJobToWorker(p, id) ==
    IF p.availableWorkers = <<>>
    THEN [p EXCEPT !.jobQueue = Append(@, id), !.jobs[id + 1].queued = TRUE]
    ELSE LET w == Head(p.availableWorkers)
             j == JobOf(p, id)
             p1 == [p EXCEPT !.availableWorkers = Tail(@),
                             !.currentJob[w] = id,
                             !.busyWorkers = @ \cup {w},
                             !.workerJobs[w] = id,
                             !.jobs[id + 1].dispatches = @ + 1,
                             !.jobs[id + 1].overtook =
                                 @ \/ (p.jobQueue # <<>> /\ ~j.queued),
                             !.jobs[id + 1].queued = FALSE,
                             !.jobs[id + 1].inputs = @ \cup {ReadConfig(j.trackConfig)},
                             !.jobs[id + 1].dispatchedAfterEdit =
                                 @ \/ (live # j.trackConfig.tracks)]
         IN PostMessage(p1, w,
                [jobId |-> id, chunk |-> j.chunkIndex, len |-> j.chunkLen,
                 cfg |-> ReadConfig(j.trackConfig)])

ProcessNextJob(p) ==
    IF p.jobQueue # <<>> /\ p.availableWorkers # <<>>
    THEN AssignJobToWorker([p EXCEPT !.jobQueue = Tail(@)], Head(p.jobQueue))
    ELSE p

\* job.resolve / job.reject: a promise settles once
ResolveJob(p, id, data) ==
    IF JobOf(p, id).state = "pending"
    THEN [p EXCEPT !.jobs[id + 1].state = "resolved", !.jobs[id + 1].result = data]
    ELSE p

RejectJob(p, id, err) ==
    IF JobOf(p, id).state = "pending"
    THEN [p EXCEPT !.jobs[id + 1].state = "rejected", !.jobs[id + 1].error = err]
    ELSE p

ProcessJob(p, id) ==
    LET p1 == [p EXCEPT !.jobs[id + 1].retryCount = 0,
                        !.activeJobs = @ \cup {id}]
    IN IF p1.availableWorkers # <<>>
       THEN AssignJobToWorker(p1, id)
       ELSE [p1 EXCEPT !.jobQueue = Append(@, id), !.jobs[id + 1].queued = TRUE]

HandleJobComplete(p, w, id, data) ==
    IF id \notin p.activeJobs THEN p
    ELSE LET p1 == ReleaseWorker(p, w)
             p2 == ResolveJob(p1, id, data)
             p3 == [p2 EXCEPT !.activeJobs = @ \ {id}]
         IN ProcessNextJob(p3)

\* faulty variant: handleJobError granting one retry more
HandleJobErrorOneMore(p, w, id) ==
    IF id \notin p.activeJobs THEN p
    ELSE LET p1 == [p EXCEPT !.jobs[id + 1].retryCount = @ + 1] IN
         IF JobOf(p1, id).retryCount <= maxRetries + 1
         THEN [ReleaseWorker(p1, w) EXCEPT !.timers = @ \cup {id}]
         ELSE [RejectJob(ReleaseWorker(p1, w), id, "WorkerJobFailed")
                  EXCEPT !.activeJobs = @ \ {id}]

HandleJobError(p, w, id) ==
    IF id \notin p.activeJobs THEN p
    ELSE LET p1 == [p EXCEPT !.jobs[id + 1].retryCount = @ + 1] IN
         IF JobOf(p1, id).retryCount <= maxRetries
         THEN [ReleaseWorker(p1, w) EXCEPT !.timers = @ \cup {id}]
         ELSE [RejectJob(ReleaseWorker(p1, w), id, "WorkerJobFailed")
                  EXCEPT !.activeJobs = @ \ {id}]

RemoveWorker(p, w) ==
    TerminateWorker(
        [p EXCEPT !.workers = RemoveFirst(@, w),
                  !.availableWorkers = RemoveFirst(@, w),
                  !.busyWorkers = @ \ {w},
                  !.workerJobs[w] = NoJob],
        w)

HandleWorkerError(p, w) ==
    LET errorCount == p.workerErrors[w] + 1
        p1 == [p EXCEPT !.workerErrors[w] = errorCount]
        p2 == IF p1.currentJob[w] # NoJob
              THEN HandleJobError(p1, w, p1.currentJob[w])
              ELSE p1
    IN IF errorCount > WorkerErrorLimit THEN RemoveWorker(p2, w) ELSE p2

IsAvailable(p) == p.isInitialized /\ Len(p.workers) > 0

RECURSIVE RejectAll(_, _)
RejectAll(p, ids) ==
    IF ids = {} THEN p
    ELSE LET id == CHOOSE x \in ids : TRUE
         IN RejectAll(RejectJob(p, id, "Terminated"), ids \ {id})

RECURSIVE TerminateAll(_, _)
TerminateAll(p, ws) ==
    IF ws = {} THEN p
    ELSE LET w == CHOOSE x \in ws : TRUE
         IN TerminateAll(TerminateWorker(p, w), ws \ {w})

Terminate(p) ==
    LET p1 == RejectAll(p, p.activeJobs \cup Range(p.jobQueue))
        p2 == TerminateAll(p1, Range(p1.workers))
    IN [p2 EXCEPT !.workers = <<>>,
                  !.availableWorkers = <<>>,
                  !.busyWorkers = {},
                  !.workerJobs = [w \in Workers |-> NoJob],
                  !.activeJobs = {},
                  !.jobQueue = <<>>,
                  !.isInitialized = FALSE]

World == [pool |-> pool, exporter |-> exporter, render |-> render, em |-> em]

Min(a, b) == IF a < b THEN a ELSE b

NoExportSettings ==
    [enableNormalization |-> FALSE, fade |-> FALSE, fadeBeforeNorm |-> FALSE]

NoRender ==
    [status |-> "none", error |-> "none", mode |-> "none", id |-> 0,
     totalSamples |-> 0, numChunks |-> 0, chunkSamples |-> 0,
     trackConfig |-> NoCfg, chunkIndex |-> 0, outputOffset |-> 0,
     finalResult |-> <<>>, batchStart |-> 0, jobIds |-> <<>>,
     results |-> <<>>, exportCancelled |-> FALSE, afterCancel |-> 0,
     chunkInputs |-> {}, finalData |-> <<>>, settings |-> NoExportSettings]

\* chunkEnd - chunkStart, chunkEnd = min(chunkStart + chunkSamples, totalSamples)
ChunkLen(i, c, total) == Min(i * c + c, total) - i * c

Zeros(n) == [k \in 1 .. n |-> ZeroSample]

(***************************************************************************)
(* ExportManager.startExport catch branch and performExport's end.         *)
(***************************************************************************)
\* faulty variant: a catch branch that writes out the clips rendered so far
ExportFailedWritesPartial(W) ==
    [W EXCEPT !.em.pc = "idle", !.em.outcome = "failed",
              !.em.discarded = 0,
              !.em.files = IF W.em.clips = <<>> THEN {} ELSE {"wav"},
              !.em.cancelExport = FALSE]

\* performExport throws: its local clips array goes out of scope, startExport
\* catches, hides the progress UI (cancelExport = null) and shows the error
\* (em.discarded records how many rendered clips were dropped with it)
ExportFailed(W) ==
    [W EXCEPT !.em.pc = "idle", !.em.outcome = "failed", !.em.clips = <<>>,
              !.em.discarded = Len(W.em.clips),
              !.em.cancelExport = FALSE]

\* a render (exportSimple) rejects with err
FailRender(W, err) ==
    LET W1 == [W EXCEPT !.render.status = "failed", !.render.error = err]
    IN IF W.render.mode = "api" THEN W1 ELSE ExportFailed(W1)

\* Math.floor(settings.silenceDuration / 1000.0 * sampleRate), or 0
SilenceLength(settings) == IF settings.silenceEnabled THEN SilenceSamples ELSE 0

\* combineClips: the clips at a running offset in a zero-filled array, the
\* offset stepping over a silence block after each clip but the last, and
\* after the last one too when finalSilence is set
RECURSIVE PlaceClips(_, _, _, _, _)
PlaceClips(combined, clips, i, offset, settings) ==
    IF i > Len(clips) THEN combined
    ELSE PlaceClips(SetAt(combined, clips[i], offset), clips, i + 1,
                    offset + Len(clips[i])
                      + (IF settings.silenceEnabled
                            /\ (i < Len(clips) \/ settings.finalSilence)
                         THEN SilenceLength(settings) ELSE 0),
                    settings)

RECURSIVE SumLen(_)
SumLen(clips) == IF clips = <<>> THEN 0 ELSE Len(Head(clips)) + SumLen(Tail(clips))

CombineClips(clips, settings) ==
    IF Len(clips) = 1 THEN clips[1]
    ELSE LET totalSamples ==
                 SumLen(clips)
                 + (IF settings.silenceEnabled
                    THEN SilenceLength(settings) * (Len(clips) - 1)
                         + (IF settings.finalSilence THEN SilenceLength(settings) ELSE 0)
                    ELSE 0)
         IN PlaceClips([k \in 1 .. totalSamples |-> ZeroSample], clips, 1, 0, settings)

\* performExport lines 658-687: combine, export the enabled files
EmitFiles(W) ==
    [W EXCEPT !.em.pc = "completing", !.em.outcome = "ok",
              !.em.finalAudio = IF W.em.settings.clips = 1 THEN W.em.clips[1]
                                ELSE CombineClips(W.em.clips, W.em.settings),
              !.em.files = (IF W.em.settings.wavEnabled THEN {"wav"} ELSE {})
                           \cup (IF W.em.settings.cppEnabled THEN {"h"} ELSE {})]

(***************************************************************************)
(* WorkerPool.processChunksParallel.                                       *)
(***************************************************************************)
RECURSIVE ProcessJobs(_, _)
ProcessJobs(p, ids) ==
    IF ids = <<>> THEN p
    ELSE ProcessJobs(ProcessJob(p, Head(ids)), Tail(ids))

\* one iteration of the batch loop up to its await
SubmitBatch(W) ==
    LET r == W.render
        batchEnd == Min(r.batchStart + PoolSize, r.numChunks)
    IN [W EXCEPT !.pool = ProcessJobs(@, SubSeq(r.jobIds, r.batchStart + 1, batchEnd))]

NewJob(id, index, len, cfg, rid) ==
    [id |-> id, chunkIndex |-> index, chunkLen |-> len, trackConfig |-> cfg,
     render |-> rid, retryCount |-> 0, state |-> "pending", result |-> <<>>,
     error |-> "none", dispatches |-> 0, overtook |-> FALSE,
     queued |-> FALSE, inputs |-> {}, dispatchedAfterEdit |-> FALSE]

\* lines 148-176: create one job per chunk, submit the first batch
CreateJobs(W) ==
    LET r == W.render
        base == W.pool.jobIdCounter
        new == [i \in 1 .. r.numChunks |->
                   NewJob(base + i - 1, i - 1,
                          ChunkLen(i - 1, r.chunkSamples, r.totalSamples),
                          r.trackConfig, r.id)]
    IN SubmitBatch(
         [W EXCEPT !.pool.jobs = @ \o new,
                   !.pool.jobIdCounter = @ + r.numChunks,
                   !.render.jobIds = [i \in 1 .. r.numChunks |-> base + i - 1],
                   !.render.results = [i \in 1 .. r.numChunks |-> <<>>],
                   !.render.batchStart = 0])

\* faulty variant: processChunksParallel without its isInitialized guard
ProcessChunksParallelUnguarded(W) == CreateJobs(W)

ProcessChunksParallel(W) ==
    IF ~W.pool.isInitialized THEN FailRender(W, "NotInitialized")
    ELSE CreateJobs(W)

\* faulty variant: results stored at the position within the batch
StoreBatchResultsByBatchIndex(results, batchJobs) ==
    [i \in 1 .. Len(results) |->
        IF i <= Len(batchJobs) THEN batchJobs[i].result ELSE results[i]]

\* batchJobs.forEach((job, index) => results[job.chunkIndex] = batchResults[index])
StoreBatchResults(results, batchJobs) ==
    [i \in 1 .. Len(results) |->
        IF \E k \in 1 .. Len(batchJobs) : batchJobs[k].chunkIndex = i - 1
        THEN (batchJobs[CHOOSE k \in 1 .. Len(batchJobs) :
                            batchJobs[k].chunkIndex = i - 1]).result
        ELSE results[i]]

(***************************************************************************)
(* SimpleAudioExporter: exportChunked and its two paths.                   *)
(***************************************************************************)
\* the length of what processChunk returns for a chunk of currentChunkSamples
\* samples: the loop passes chunkDuration = currentChunkSamples / sampleRate
\* and processChunk allocates Math.floor(chunkDuration * sampleRate) samples
ProcessChunkSamples(currentChunkSamples, sampleRate) ==
    FloorDivMul(currentChunkSamples, sampleRate, sampleRate)

\* one iteration of the sequential loop, lines 515-550, up to its timer
\* (the model's sample rate is SamplesPerTenSec, its unit of time 10 s)
SeqChunkStep(W) ==
    LET r == W.render
        len == ProcessChunkSamples(
                   ChunkLen(r.chunkIndex, r.chunkSamples, r.totalSamples),
                   SamplesPerTenSec)
        cfg == ReadConfig(r.trackConfig)
        chunkResult == MixedData(r.chunkIndex, len, cfg)
        W1 == [W EXCEPT !.render.finalResult = SetAt(@, chunkResult, r.outputOffset),
                        !.render.outputOffset = @ + Len(chunkResult),
                        !.render.chunkInputs = @ \cup {cfg},
                        !.render.afterCancel =
                            IF r.exportCancelled THEN @ + 1 ELSE @]
    IN IF r.exportCancelled THEN FailRender(W1, "Cancelled")
       ELSE [W1 EXCEPT !.render.chunkIndex = @ + 1]

ExportChunkedSequential(W) ==
    LET c == ChunkSamples(SeqChunkSeconds)
        total == W.render.totalSamples
        W1 == [W EXCEPT !.render.mode = "seq",
                        !.render.chunkSamples = c,
                        !.render.numChunks = CeilDiv(total, c),
                        !.render.finalResult = Zeros(total),
                        !.render.outputOffset = 0,
                        !.render.chunkIndex = 0]
    IN IF W1.render.exportCancelled THEN FailRender(W1, "Cancelled")
       ELSE SeqChunkStep(W1)

ExportChunkedParallel(W) ==
    LET c == ChunkSamples(ParChunkSeconds)
        total == W.render.totalSamples
        W1 == [W EXCEPT !.render.mode = "par",
                        !.render.chunkSamples = c,
                        !.render.numChunks = CeilDiv(total, c)]
    IN IF W1.render.exportCancelled THEN FailRender(W1, "Cancelled")
       ELSE ProcessChunksParallel(W1)

ExportChunked(W) ==
    LET numChunks == CeilDiv(W.render.totalSamples, ChunkSamples(SeqChunkSeconds))
        useParallelProcessing ==
            /\ W.exporter.workersSupported
            /\ W.exporter.workersInitialized
            /\ IsAvailable(W.pool)
            /\ numChunks >= 2
    IN IF useParallelProcessing THEN ExportChunkedParallel(W)
       ELSE ExportChunkedSequential(W)

(***************************************************************************)
(* ExportManager.generateClipAudio: snapshot, fresh cancel flag, render.   *)
(***************************************************************************)
GenerateClipAudio(W) ==
    LET trackConfig == [tracks |-> live, settings |-> W.em.settings.cfg]
        total == (W.em.settings.duration * SamplesPerTenSec) \div 10
        exportSettings ==
            [enableNormalization |-> W.em.settings.normalizationEnabled \/ TRUE,
             fade |-> W.em.settings.fadeEnabled,
             fadeBeforeNorm |-> W.em.settings.processOrder = "fade-then-normalize"]
    IN ExportChunked(
         [W EXCEPT !.render = [NoRender EXCEPT !.status = "running",
                                               !.id = W.render.id + 1,
                                               !.totalSamples = total,
                                               !.trackConfig = trackConfig,
                                               !.settings = exportSettings],
                   !.em.cancelExport = TRUE])

\* the render returns data: performExport pushes the clip and goes on
FinishRender(W, data) ==
    LET W1 == [W EXCEPT !.render.status = "done", !.render.finalData = data]
    IN IF W.render.mode = "api" THEN W1
       ELSE LET W2 == [W1 EXCEPT !.em.clips = Append(@, data)]
            IN IF Len(W2.em.clips) < W2.em.settings.clips
               THEN GenerateClipAudio(W2)
               ELSE EmitFiles(W2)

\* "Apply fade and normalization in the correct order", to the complete signal
PostProcess(finalResult, settings) ==
    LET fade(x) == IF settings.fade THEN ApplyFadeEnvelope(x) ELSE x
        norm(x) == IF settings.enableNormalization THEN NormalizeSignal(x) ELSE x
    IN IF settings.fadeBeforeNorm THEN norm(fade(finalResult))
       ELSE fade(norm(finalResult))

\* the 'finalizing' progress report and what follows it
FinalizeChunked(W, finalResult) ==
    IF W.render.exportCancelled THEN FailRender(W, "Cancelled")
    ELSE FinishRender(W, PostProcess(finalResult, W.render.settings))

\* exportChunkedParallel lines 415-422
RECURSIVE Assemble(_, _, _, _)
Assemble(buf, chunkResults, i, outputOffset) ==
    IF i > Len(chunkResults) THEN buf
    ELSE Assemble(SetAt(buf, chunkResults[i], outputOffset), chunkResults, i + 1,
                  outputOffset + Len(chunkResults[i]))

\* the continuation of `await Promise.all(batchPromises)`
ContinueProcessChunksParallel(W) ==
    LET r == W.render
        p == W.pool
        batchEnd == Min(r.batchStart + PoolSize, r.numChunks)
        batchIds == SubSeq(r.jobIds, r.batchStart + 1, batchEnd)
        batchJobs == [k \in 1 .. Len(batchIds) |-> JobOf(p, batchIds[k])]
        rejected == {k \in 1 .. Len(batchJobs) : batchJobs[k].state = "rejected"}
    IN IF r.status # "running" \/ r.mode \notin {"par", "api"} THEN W
       ELSE IF rejected # {}
       THEN FailRender(W, batchJobs[CHOOSE k \in rejected : TRUE].error)
       ELSE IF \A k \in 1 .. Len(batchJobs) : batchJobs[k].state = "resolved"
       THEN LET W1 == [W EXCEPT !.render.results = StoreBatchResults(@, batchJobs),
                                !.render.batchStart = @ + PoolSize]
            IN IF W1.render.batchStart < r.numChunks THEN SubmitBatch(W1)
               ELSE IF r.mode = "api" THEN FinishRender(W1, <<>>)
               ELSE FinalizeChunked(W1,
                        Assemble(Zeros(r.totalSamples), W1.render.results, 1, 0))
       ELSE W

(***************************************************************************)
(* Initial state: the page has constructed the ExportManager, whose         *)
(* SimpleAudioExporter has constructed the WorkerPool; every worker has    *)
(* been created and sent 'init', none has answered yet.                    *)
(***************************************************************************)
\* getDefaultSettings: the processing controls as the dialog first shows them
DefaultForm ==
    [normalizationEnabled |-> TRUE, normalizationType |-> "global",
     processOrder |-> "fade-then-normalize", fadeEnabled |-> TRUE,
     silenceEnabled |-> TRUE, finalSilence |-> TRUE]

\* the values the controls can be set to; the order of fade and normalization
\* is only offered with a fade, the final silence only with silence
Forms ==
    {f \in [normalizationEnabled : BOOLEAN, normalizationType : {"global", "per-clip"},
            processOrder : {"fade-then-normalize", "normalize-then-fade"},
            fadeEnabled : BOOLEAN, silenceEnabled : BOOLEAN, finalSilence : BOOLEAN] :
        /\ f.finalSilence => f.silenceEnabled
        /\ ~f.fadeEnabled => f.processOrder = "fade-then-normalize"}

NoSettings ==
    [clips |-> 0, duration |-> 0, wavEnabled |-> FALSE, cppEnabled |-> FALSE,
     cfg |-> -1] @@ DefaultForm

\* The environment of one run: how many worker failures, cancel clicks,
\* configuration edits, terminate() calls, init timeouts and direct calls of
\* processChunksParallel it may produce.  A run is of one of three kinds:
\* unreliable workers; a user who cancels and edits while one chunk may fail;
\* a pool whose start-up times out or that is used directly.
Budgets ==
    {[faults |-> MaxFaults, cancels |-> 0, edits |-> 0, terminates |-> 0,
      timeouts |-> 0, apiCalls |-> 0],
     [faults |-> 1, cancels |-> 1, edits |-> NumConfigs - 1, terminates |-> 0,
      timeouts |-> 0, apiCalls |-> 0],
     [faults |-> 0, cancels |-> 0, edits |-> 0, terminates |-> 1,
      timeouts |-> PoolSize, apiCalls |-> MaxRenders]}

InitMachine ==
    /\ pool = [workers |-> <<>>, availableWorkers |-> <<>>, busyWorkers |-> {},
               workerJobs |-> [w \in Workers |-> NoJob],
               currentJob |-> [w \in Workers |-> NoJob],
               jobQueue |-> <<>>, jobIdCounter |-> 0, activeJobs |-> {},
               workerErrors |-> [w \in Workers |-> 0],
               isInitialized |-> FALSE, initPromise |-> "pending",
               init |-> [w \in Workers |-> "pending"],
               jobs |-> <<>>, inbox |-> [w \in Workers |-> <<>>],
               timers |-> {}, terminated |-> {}]
    /\ exporter = [workersSupported |-> FALSE, workersInitialized |-> FALSE]
    /\ render = NoRender
    /\ em = [pc |-> "idle", outcome |-> "none", settings |-> NoSettings,
             clips |-> <<>>, files |-> {}, discarded |-> 0,
             finalAudio |-> <<>>, cancelExport |-> FALSE]
    /\ live = 0

(***************************************************************************)
(* Track (track.js) and its NoiseProcessor.  Gains are in percent of full  *)
(* scale.  gainNode is the track's GainNode gain parameter: the value of   *)
(* its last completed automation event and the targets of the ramps still *)
(* scheduled, in time order.  port holds the messages posted to the noise  *)
(* processor and not yet handled by it; timers counts the pending          *)
(* setTimeout callbacks of stop().                                         *)
(***************************************************************************)
Max(a, b) == IF a > b THEN a ELSE b

FullGain == 100

\* NoiseProcessor constructor: gain 0.5, inactive
NewNoiseProcessor == [isActive |-> FALSE, gain |-> FullGain \div 2]

\* Track constructor and setupAudioChain
NewTrack(id) ==
    [id |-> id, isPlaying |-> FALSE, isMuted |-> FALSE, currentGain |-> FullGain,
     gainNode |-> [value |-> 0, ramps |-> <<>>],
     noise |-> NewNoiseProcessor, port |-> <<>>, timers |-> 0,
     destroyed |-> FALSE, uncaught |-> FALSE]

Message(type, value) == [type |-> type, value |-> value]

\* Track.start
TrackStart(t) ==
    IF t.isPlaying \/ t.isMuted THEN t
    ELSE [t EXCEPT !.port = Append(@, Message("start", 0)),
                   \* cancelScheduledValues, setValueAtTime(0), linearRamp
                   !.gainNode = [value |-> 0, ramps |-> <<t.currentGain>>],
                   !.isPlaying = TRUE]

\* Track.stop: fade out, and a timer that will post 'stop'
TrackStop(t) ==
    IF ~t.isPlaying THEN t
    ELSE [t EXCEPT !.gainNode = [value |-> t.currentGain, ramps |-> <<0>>],
                   !.timers = @ + 1,
                   !.isPlaying = FALSE]

\* Track.setGain
TrackSetGain(t, g) ==
    LET linearGain == Max(0, Min(FullGain, g))
    IN [t EXCEPT !.currentGain = linearGain,
                 !.port = Append(@, Message("setGain", linearGain)),
                 !.gainNode.ramps = IF t.isPlaying /\ ~t.isMuted
                                    THEN Append(@, linearGain) ELSE @]

\* Track.setMuted
TrackSetMuted(t, muted) ==
    [t EXCEPT !.isMuted = muted,
              !.gainNode.ramps = IF t.isPlaying
                                 THEN Append(@, IF muted THEN 0 ELSE t.currentGain)
                                 ELSE @]

\* Track.destroy: stop if playing, then release the filter chain, the noise
\* node and the gain node (destroyed: this.noiseNode is null)
TrackDestroy(t) == [TrackStop(t) EXCEPT !.destroyed = TRUE]

\* the callback of the timer set by stop(), track.js lines 144-146:
\* this.noiseNode.port.postMessage, a TypeError that nothing catches when
\* noiseNode is null
StopTimerFires(t) ==
    IF t.destroyed
    THEN [t EXCEPT !.timers = @ - 1, !.uncaught = TRUE]
    ELSE [t EXCEPT !.timers = @ - 1, !.port = Append(@, Message("stop", 0))]

\* NoiseProcessor port.onmessage
OnMessage(noise, msg) ==
    CASE msg.type = "setGain" -> [noise EXCEPT !.gain = Max(0, Min(FullGain, msg.value))]
      [] msg.type = "start"   -> [noise EXCEPT !.isActive = TRUE]
      [] msg.type = "stop"    -> [noise EXCEPT !.isActive = FALSE]

\* the processor handles the oldest message in flight
DeliverMessage(t) ==
    [t EXCEPT !.noise = OnMessage(@, Head(t.port)), !.port = Tail(@)]

\* the audio clock reaches the end of the earliest scheduled ramp
RampEnds(t) ==
    [t EXCEPT !.gainNode = [value |-> Head(t.gainNode.ramps),
                            ramps |-> Tail(t.gainNode.ramps)]]

\* nothing of the track is in flight
Settled(t) == t.port = <<>> /\ t.gainNode.ramps = <<>> /\ t.timers = 0

\* what the track feeds into the mix bus: NoiseProcessor.process output
\* (zero when inactive, else noise times its gain) through the gain node
Contribution(t) ==
    IF t.noise.isActive /\ ~t.destroyed
    THEN t.noise.gain * t.gainNode.value ELSE 0

InFlightBounded(t) ==
    /\ Len(t.port) <= MaxPending
    /\ Len(t.gainNode.ramps) <= MaxPending
    /\ t.timers <= MaxPending

(***************************************************************************)
(* FilterChain (filterChain.js) over DirectFFTManager (directFFT.js) and   *)
(* BiquadFilterNode.  Audio nodes are numbered; edges is the set of        *)
(* connections <<from, to>> between them, as connect() and disconnect()    *)
(* of the Web Audio API maintain it: connect adds a connection (once),     *)
(* disconnect() removes every connection leaving the node.  The permanent  *)
(* connection inputNode -> routingNode is left out.  Of a filter's config  *)
(* the model keeps the type and one numeric parameter per variant,         *)
(* "frequency" for the standard filters and "centerFreq" for the advanced. *)
(***************************************************************************)
RoutingNode == 0
OutputNode == 1

StandardTypes == {"lowpass"}
AdvancedTypes == {"gaussian"}
FilterTypes == StandardTypes \cup AdvancedTypes

DefaultFrequency == 1000
CenterFreqMin == 20
CenterFreqMax == 20000

\* the numeric parameter of each variant
ParamOf(isAdvanced) == IF isAdvanced THEN "centerFreq" ELSE "frequency"

\* DirectFFTManager constructor
NewManager == [isConnected |-> FALSE, isActive |-> FALSE, centerFreq |-> DefaultFrequency]

NoManager == [isConnected |-> FALSE, isActive |-> FALSE, centerFreq |-> 0]

\* DirectFFTManager.setCenterFreq
SetCenterFreq(m, freq) ==
    [m EXCEPT !.centerFreq = Max(CenterFreqMin, Min(CenterFreqMax, freq))]

\* DirectFFTManager.setActive
SetActive(m, active) == [m EXCEPT !.isActive = active]

\* AudioNode.disconnect(): every connection leaving node n
Disconnect(edges, n) == {e \in edges : e[1] # n}

\* DirectFFTManager.disconnect, on the connections of its processor node
ManagerDisconnects(m) == m.isConnected

\* the last call on the chain: its name, whether it was given an index
\* outside [0, count), and whether it returned ("ok"), threw ("error") or is
\* still waiting ("pending")
NoCall == [op |-> "none", outside |-> FALSE, outcome |-> "ok"]

Call(op, outside, outcome) == [op |-> op, outside |-> outside, outcome |-> outcome]

Outside(index, count) == index < 0 \/ index >= count

\* FilterChain constructor and setupChain (rebuildChain of an empty chain)
NewChain ==
    [filters |-> <<>>, edges |-> {<<RoutingNode, OutputNode>>},
     nextNode |-> OutputNode + 1, pending |-> {}, last |-> NoCall]

\* faulty variant: rebuildChain without its last step, the ids stay as they are
RebuildChainStaleIds(c) ==
    LET n == Len(c.filters)
        drops(f) == IF f.isAdvanced THEN ManagerDisconnects(f.manager) ELSE TRUE
        kept == {e \in Disconnect(c.edges, RoutingNode) :
                    \A k \in 1 .. n : c.filters[k].node = e[1] => ~drops(c.filters[k])}
        filters == [k \in 1 .. n |->
                       IF c.filters[k].isAdvanced
                       THEN [c.filters[k] EXCEPT !.manager.isConnected = FALSE]
                       ELSE c.filters[k]]
        built == IF n = 0 THEN {<<RoutingNode, OutputNode>>}
                 ELSE {<<RoutingNode, filters[1].node>>}
                      \cup {<<filters[k].node, filters[k + 1].node>> : k \in 1 .. n - 1}
                      \cup {<<filters[n].node, OutputNode>>}
    IN [c EXCEPT !.filters = filters, !.edges = kept \cup built]

\* rebuildChain: disconnect routingNode and every filter node (an advanced
\* one through DirectFFTManager.disconnect), connect routingNode -> filters
\* in list order -> outputNode, renumber the ids
RebuildChain(c) ==
    LET n == Len(c.filters)
        drops(f) == IF f.isAdvanced THEN ManagerDisconnects(f.manager) ELSE TRUE
        kept == {e \in Disconnect(c.edges, RoutingNode) :
                    \A k \in 1 .. n : c.filters[k].node = e[1] => ~drops(c.filters[k])}
        filters == [k \in 1 .. n |->
                       [(IF c.filters[k].isAdvanced
                         THEN [c.filters[k] EXCEPT !.manager.isConnected = FALSE]
                         ELSE c.filters[k])
                        EXCEPT !.id = k - 1]]
        built == IF n = 0 THEN {<<RoutingNode, OutputNode>>}
                 ELSE {<<RoutingNode, filters[1].node>>}
                      \cup {<<filters[k].node, filters[k + 1].node>> : k \in 1 .. n - 1}
                      \cup {<<filters[n].node, OutputNode>>}
    IN [c EXCEPT !.filters = filters, !.edges = kept \cup built]

\* addFilter from "Create filter metadata object" on: push, rebuild
PushFilter(c, type, node, manager) ==
    LET isAdvanced == type \in AdvancedTypes
        filterData ==
            [id |-> Len(c.filters), node |-> node, type |-> type,
             config |-> [k \in {ParamOf(isAdvanced)} |-> DefaultFrequency],
             enabled |-> TRUE, isAdvanced |-> isAdvanced,
             manager |-> manager, biquad |-> IF isAdvanced THEN "none" ELSE type]
    IN [RebuildChain([c EXCEPT !.filters = Append(@, filterData)])
        EXCEPT !.last = Call("addFilter", FALSE, "ok")]

\* addFilter of a standard type: a BiquadFilterNode, no waiting
AddStandardFilter(c, type) ==
    PushFilter([c EXCEPT !.nextNode = @ + 1], type, c.nextNode, NoManager)

\* addFilter of an advanced type up to its await: the manager exists, its
\* processor is not ready
BeginAdvancedFilter(c, type) ==
    [c EXCEPT !.nextNode = @ + 1,
              !.pending = @ \cup {[node |-> c.nextNode, type |-> type]},
              !.last = Call("addFilter", FALSE, "pending")]

\* addFilter of an advanced type from 'processorReady' on
FinishAdvancedFilter(c, a) ==
    PushFilter([c EXCEPT !.pending = @ \ {a}], a.type, a.node,
               SetActive(SetCenterFreq(NewManager, DefaultFrequency), TRUE))

\* addFilter of an advanced type: timeout or manager error, the add is rejected
FailAdvancedFilter(c, a) ==
    [c EXCEPT !.pending = @ \ {a},
              !.last = Call("addFilter", FALSE, "error")]

\* Array.prototype.splice(i, 1) and splice(i, 0, x), i counted from 0
SpliceOut(s, i) == SubSeq(s, 1, i) \o SubSeq(s, i + 2, Len(s))

SpliceIn(s, i, x) == SubSeq(s, 1, i) \o <<x>> \o SubSeq(s, i + 1, Len(s))

\* faulty variant: removeFilter without its index check, the index going
\* straight to splice (a negative index counts from the end)
RemoveFilterUnchecked(c, filterIndex) ==
    LET i == IF filterIndex < 0 THEN Max(0, Len(c.filters) + filterIndex)
             ELSE filterIndex
    IN IF i >= Len(c.filters)
       THEN [c EXCEPT !.last = Call("removeFilter", Outside(filterIndex, Len(c.filters)), "ok")]
       ELSE [RebuildChain(
               [c EXCEPT !.edges = IF c.filters[i + 1].isAdvanced
                                      /\ ~ManagerDisconnects(c.filters[i + 1].manager)
                                   THEN @ ELSE Disconnect(@, c.filters[i + 1].node),
                         !.filters = SpliceOut(@, i)])
             EXCEPT !.last = Call("removeFilter", Outside(filterIndex, Len(c.filters)), "ok")]

\* removeFilter
RemoveFilter(c, filterIndex) ==
    IF filterIndex < 0 \/ filterIndex >= Len(c.filters)
    THEN [c EXCEPT !.last = Call("removeFilter", Outside(filterIndex, Len(c.filters)), "error")]
    ELSE LET filterData == c.filters[filterIndex + 1]
             \* an advanced filter: destroy(), which calls disconnect()
             drops == IF filterData.isAdvanced
                      THEN ManagerDisconnects(filterData.manager) ELSE TRUE
         IN [RebuildChain(
               [c EXCEPT !.edges = IF drops THEN Disconnect(@, filterData.node) ELSE @,
                         !.filters = SpliceOut(@, filterIndex)])
             EXCEPT !.last = Call("removeFilter", Outside(filterIndex, Len(c.filters)), "ok")]

\* moveFilter
MoveFilter(c, fromIndex, toIndex) ==
    IF \/ fromIndex < 0 \/ fromIndex >= Len(c.filters)
       \/ toIndex < 0 \/ toIndex >= Len(c.filters)
    THEN [c EXCEPT !.last = Call("moveFilter",
                               Outside(fromIndex, Len(c.filters))
                                 \/ Outside(toIndex, Len(c.filters)), "error")]
    ELSE IF fromIndex = toIndex
    THEN [c EXCEPT !.last = Call("moveFilter",
                               Outside(fromIndex, Len(c.filters))
                                 \/ Outside(toIndex, Len(c.filters)), "ok")]
    ELSE LET filterData == c.filters[fromIndex + 1]
         IN [RebuildChain(
               [c EXCEPT !.filters = SpliceIn(SpliceOut(@, fromIndex), toIndex, filterData)])
             EXCEPT !.last = Call("moveFilter",
                               Outside(fromIndex, Len(c.filters))
                                 \/ Outside(toIndex, Len(c.filters)), "ok")]

\* filterData.config[parameter] = value
SetKey(config, parameter, value) ==
    [k \in DOMAIN config \cup {parameter} |->
        IF k = parameter THEN value ELSE config[k]]

\* setFilterParameter: store the value, apply it to the node of an enabled
\* filter; a parameter the variant does not have only logs a warning
SetFilterParameter(c, filterIndex, parameter, value) ==
    IF filterIndex < 0 \/ filterIndex >= Len(c.filters)
    THEN [c EXCEPT !.last = Call("setFilterParameter",
                               Outside(filterIndex, Len(c.filters)), "error")]
    ELSE LET filterData == c.filters[filterIndex + 1]
             stored == [filterData EXCEPT !.config = SetKey(@, parameter, value)]
             applied == IF stored.enabled /\ stored.isAdvanced /\ parameter = "centerFreq"
                        THEN [stored EXCEPT !.manager = SetCenterFreq(@, value)]
                        ELSE stored
         IN [c EXCEPT !.filters[filterIndex + 1] = applied,
                      !.last = Call("setFilterParameter",
                               Outside(filterIndex, Len(c.filters)), "ok")]

\* setFilterEnabled
SetFilterEnabled(c, filterIndex, enabled) ==
    IF filterIndex < 0 \/ filterIndex >= Len(c.filters)
    THEN [c EXCEPT !.last = Call("setFilterEnabled", Outside(filterIndex, Len(c.filters)), "error")]
    ELSE LET filterData == [c.filters[filterIndex + 1] EXCEPT !.enabled = enabled]
             done == IF filterData.isAdvanced
                     THEN [filterData EXCEPT !.manager = SetActive(@, enabled)]
                     ELSE [filterData EXCEPT !.biquad = IF enabled THEN filterData.type
                                                        ELSE "allpass"]
         IN [c EXCEPT !.filters[filterIndex + 1] = done,
                      !.last = Call("setFilterEnabled", Outside(filterIndex, Len(c.filters)), "ok")]

\* config.key || fallback
OrDefault(config, key, fallback) ==
    IF key \in DOMAIN config /\ config[key] # 0 THEN config[key] ELSE fallback

\* getExportConfig
GetExportConfig(c) ==
    [k \in 1 .. Len(c.filters) |->
        LET filterData == c.filters[k]
            key == ParamOf(filterData.isAdvanced)
        IN [type |-> filterData.type, enabled |-> filterData.enabled,
            isAdvanced |-> filterData.isAdvanced,
            params |-> [p \in {key} |-> OrDefault(filterData.config, key, DefaultFrequency)]]]

(***************************************************************************)
(* TrackManager.  Of each Track the manager's bookkeeping reads and writes *)
(* id, isPlaying and isMuted; uid tells the Track objects apart, trackId   *)
(* is the constant of addTrack that the track's listeners have captured.   *)
(***************************************************************************)
\* new Track(trackId, ...)
ManagedTrack(id, uid) ==
    [id |-> id, uid |-> uid, isPlaying |-> FALSE, isMuted |-> FALSE, trackId |-> id]

\* the listeners of addTrack: this.emit(type, { trackId, ...data }) for an
\* event of track t; position is t's id when the event is forwarded
Forwarded(t, type) == [type |-> type, trackId |-> t.trackId, position |-> t.id]

ForwardedAll(tracks, type) ==
    [k \in 1 .. Len(tracks) |-> Forwarded(tracks[k], type)]

\* the manager after its listeners forwarded events
Forward(m, events) == IF events = <<>> THEN m ELSE [m EXCEPT !.forwarded = events]

\* whether Track.start / Track.stop get past their first test and emit
\* 'stateChanged'
Starts(t) == ~(t.isPlaying \/ t.isMuted)

Stops(t) == t.isPlaying

\* Track.start, Track.stop, Track.setMuted on those fields
ManagedStart(t) == IF t.isPlaying \/ t.isMuted THEN t ELSE [t EXCEPT !.isPlaying = TRUE]

ManagedStop(t) == [t EXCEPT !.isPlaying = FALSE]

ManagedSetMuted(t, muted) == [t EXCEPT !.isMuted = muted]

\* TrackManager constructor, on an initialised engine (AudioEngine.initialize
\* has resumed the context).  context is audioContext.state; starting counts
\* the startAll calls waiting in `await this.audioEngine.resumeContext()`
NewTrackManager ==
    [tracks |-> <<>>, isPlaying |-> FALSE, nextUid |-> 0, last |-> NoCall,
     context |-> "running", starting |-> 0, forwarded |-> <<>>]

\* faulty variant: addTrack without its auto-start
AddTrackNoStart(m) ==
    LET trackId == Len(m.tracks)
        created == ManagedTrack(trackId, m.nextUid)
    IN [m EXCEPT !.tracks = Append(@, created), !.nextUid = @ + 1,
                 !.last = Call("addTrack", FALSE, "ok")]

\* addTrack
AddTrack(m) ==
    LET trackId == Len(m.tracks)
        created == ManagedTrack(trackId, m.nextUid)
        started == IF m.isPlaying /\ ~created.isMuted THEN ManagedStart(created)
                   ELSE created
        events == IF m.isPlaying /\ Starts(created)
                  THEN <<Forwarded(created, "trackStateChanged")>> ELSE <<>>
    IN [Forward(m, events)
           EXCEPT !.tracks = Append(@, started), !.nextUid = @ + 1,
                  !.last = Call("addTrack", FALSE, "ok")]

\* removeTrack: stop and destroy the track, splice it out, renumber the rest
RemoveTrack(m, trackId) ==
    IF trackId < 0 \/ trackId >= Len(m.tracks)
    THEN [m EXCEPT !.last = Call("removeTrack", Outside(trackId, Len(m.tracks)), "error")]
    ELSE LET rest == SpliceOut(m.tracks, trackId)
             events == ForwardedAll(SelectSeq(<<m.tracks[trackId + 1]>>, Stops),
                                    "trackStateChanged")
         IN [Forward(m, events)
                EXCEPT !.tracks = [i \in 1 .. Len(rest) |-> [rest[i] EXCEPT !.id = i - 1]],
                       !.last = Call("removeTrack", Outside(trackId, Len(m.tracks)), "ok")]

\* getTrack
GetTrack(m, trackId) ==
    IF trackId < 0 \/ trackId >= Len(m.tracks)
    THEN [m EXCEPT !.last = Call("getTrack", Outside(trackId, Len(m.tracks)), "error")]
    ELSE [m EXCEPT !.last = Call("getTrack", Outside(trackId, Len(m.tracks)), "ok")]

\* startAll after its await: start the unmuted tracks, set isPlaying
StartTracks(m) ==
    [Forward(m, ForwardedAll(SelectSeq(m.tracks, Starts), "trackStateChanged"))
        EXCEPT !.tracks = [i \in 1 .. Len(m.tracks) |-> ManagedStart(m.tracks[i])],
               !.isPlaying = TRUE]

\* startAll: with a suspended context the call waits for
\* audioContext.resume() (AudioEngine.resumeContext) before it goes on
StartAll(m) ==
    IF m.isPlaying THEN [m EXCEPT !.last = Call("startAll", FALSE, "ok")]
    ELSE IF m.context = "suspended"
    THEN [m EXCEPT !.starting = @ + 1, !.last = Call("startAll", FALSE, "pending")]
    ELSE [StartTracks(m) EXCEPT !.last = Call("startAll", FALSE, "ok")]

\* audioContext.resume() resolves: every waiting startAll goes on
ResumeContext(m) ==
    LET resumed == [m EXCEPT !.context = "running", !.starting = 0]
    IN IF m.starting > 0 THEN StartTracks(resumed) ELSE resumed

\* the user agent suspends the context (autoplay policy, interruption)
SuspendContext(m) == [m EXCEPT !.context = "suspended"]

\* stopAll
StopAll(m) ==
    IF ~m.isPlaying THEN [m EXCEPT !.last = Call("stopAll", FALSE, "ok")]
    ELSE [Forward(m, ForwardedAll(SelectSeq(m.tracks, Stops), "trackStateChanged"))
             EXCEPT !.tracks = [i \in 1 .. Len(m.tracks) |-> ManagedStop(m.tracks[i])],
                    !.isPlaying = FALSE,
                    !.last = Call("stopAll", FALSE, "ok")]

\* getTrack(trackId).setMuted(muted)
MuteTrack(m, trackId, muted) ==
    LET got == GetTrack(m, trackId)
    IN IF got.last.outcome = "error" THEN got
       ELSE [Forward(got, <<Forwarded(got.tracks[trackId + 1], "trackMuteChanged")>>)
                EXCEPT !.tracks[trackId + 1] = ManagedSetMuted(@, muted)]

(***************************************************************************)
(* DirectFFTProcessor, the real-time STFT processor.  One sample of the    *)
(* model stands for 64 samples of the program, so FFT_SIZE is 64 for the   *)
(* program's 4096 and a host block is 1, 2 or 4 samples for 64, 128 (the   *)
(* render quantum) or 256.                                                 *)
(*                                                                         *)
(* Sample values are computed exactly: a real number of the program is     *)
(* modelled by its image in the field of integers modulo Prime, which has  *)
(* 1/2, 1/FFT_SIZE and the cosines and sines of every multiple of          *)
(* 2 pi / FFT_SIZE (Omega is a primitive FFT_SIZE-th root of unity, so     *)
(* cos t = (e^it + e^-it)/2 and sin t = (e^it - e^-it)/2i are elements of  *)
(* the field).  Sums, differences, products and the quotients the program  *)
(* takes are exact there; floating-point rounding is not modelled.  Two    *)
(* results that differ in the field differ in exact arithmetic.            *)
(***************************************************************************)
FFT_SIZE == 64
HOP_SIZE == FFT_SIZE \div 4
RING_BUFFER_SIZE == FFT_SIZE * 2

\* process reports performance every 1000th callback
ReportEvery == 1000

Prime == 3 * FFT_SIZE + 1

Fld(x) == x % Prime

RECURSIVE Power(_, _)
Power(a, e) ==
    IF e = 0 THEN 1
    ELSE LET h == Power(a, e \div 2)
         IN IF e % 2 = 0 THEN Fld(h * h) ELSE Fld(h * h * a)

\* a function on 1 .. n as a tuple
Tuple(f) == SubSeq(f, 1, Len(f))

\* division in the field: Inverses[a] * a = 1
Inverses ==
    Tuple([a \in 1 .. Prime - 1 |-> CHOOSE b \in 1 .. Prime - 1 : Fld(a * b) = 1])

Inverse(a) == Inverses[Fld(a)]

Omega == CHOOSE w \in 2 .. Prime - 1 : Power(w, FFT_SIZE \div 2) = Prime - 1

\* Roots[k + 1] is the k-th power of Omega
Roots == Tuple([k \in 1 .. FFT_SIZE |-> Power(Omega, k - 1)])

\* the angle 2 pi num / den as a multiple of 2 pi / FFT_SIZE
Turn(num, den) == (num * (FFT_SIZE \div den)) % FFT_SIZE

\* Math.cos and Math.sin of 2 pi num / den
Cos(num, den) ==
    Fld(Inverse(2) * (Roots[Turn(num, den) + 1] + Roots[Turn(-num, den) + 1]))

Sin(num, den) ==
    Fld((Roots[Turn(num, den) + 1] - Roots[Turn(-num, den) + 1])
        * Inverse(2 * Roots[FFT_SIZE \div 4 + 1]))

Fill(n, x) == Tuple([k \in 1 .. n |-> x])

RECURSIVE SumSeq(_)
SumSeq(s) ==
    IF s = <<>> THEN 0
    ELSE IF Len(s) = 1 THEN s[1]
    ELSE SumSeq(SubSeq(s, 1, Len(s) \div 2))
             + SumSeq(SubSeq(s, Len(s) \div 2 + 1, Len(s)))

\* setupFrequencies: the Hann window, 0.5 - 0.5 cos(2 pi i / FFT_SIZE)
Window ==
    Tuple([k \in 1 .. FFT_SIZE |->
              Fld(Inverse(2) - Inverse(2) * Cos(k - 1, FFT_SIZE))])

\* setupFrequencies: windowNorm, the mean of the window
WindowNorm == Fld(SumSeq(Window) * Inverse(FFT_SIZE))

\* the host's block sizes: 128 (the reference), 64 and 256 samples
HostBlock == 2

FrameSizes == {HostBlock \div 2, HostBlock, 2 * HostBlock}

\* the input signal: sample n of the stream fed to the processor
InputSample(n) == 1 + (n % 5)

\* faulty variant: a size function that counts one sample less
GetRingBufferSizeOneLess(head, tail) ==
    (head - tail + RING_BUFFER_SIZE - 1) % RING_BUFFER_SIZE

\* getRingBufferSize
GetRingBufferSize(head, tail) ==
    (head - tail + RING_BUFFER_SIZE) % RING_BUFFER_SIZE

\* faulty variant: an enqueue that does not wrap around; what does not fit
\* between the head and the end of the buffer is dropped
EnqueueRingBufferNoWrap(buffer, head, data) ==
    [buffer |-> [k \in 1 .. Len(buffer) |->
                    IF k - head \in 1 .. Len(data) THEN data[k - head] ELSE buffer[k]],
     head |-> (head + Len(data)) % RING_BUFFER_SIZE]

\* enqueueRingBuffer: the buffer after the writes, and the new head
RECURSIVE EnqueueRingBuffer(_, _, _)
EnqueueRingBuffer(buffer, head, data) ==
    IF data = <<>> THEN [buffer |-> buffer, head |-> head]
    ELSE EnqueueRingBuffer([buffer EXCEPT ![head + 1] = Head(data)],
                           (head + 1) % RING_BUFFER_SIZE, Tail(data))

\* the length samples of a ring from tail on, read without removing them
PeekRingBuffer(buffer, tail, length) ==
    Tuple([k \in 1 .. length |-> buffer[((tail + k - 1) % RING_BUFFER_SIZE) + 1]])

\* faulty variant: dequeueRingBuffer returning the tail it was given
DequeueRingBufferNoAdvance(buffer, tail, length) ==
    [output |-> PeekRingBuffer(buffer, tail, length), tail |-> tail]

\* dequeueRingBuffer: the samples copied to output, and the new tail
DequeueRingBuffer(buffer, tail, length) ==
    [output |-> PeekRingBuffer(buffer, tail, length),
     tail |-> (tail + length) % RING_BUFFER_SIZE]

\* the index with its bits reversed, of n = 2^bits indices
RECURSIVE BitReversed(_, _)
BitReversed(i, n) ==
    IF n = 1 THEN 0 ELSE (i % 2) * (n \div 2) + BitReversed(i \div 2, n \div 2)

\* the complex product (aReal + i aImag)(bReal + i bImag)
Times(a, b) ==
    <<Fld(a[1] * b[1] - a[2] * b[2]), Fld(a[1] * b[2] + a[2] * b[1])>>

\* the twiddle factor of the j-th butterfly: (wReal, wImag) after j
\* multiplications by (wlenReal, wlenImag), the j-th power of wlen
RECURSIVE TwiddleAt(_, _)
TwiddleAt(len, j) ==
    IF j = 0 THEN <<1, 0>>
    ELSE LET h == TwiddleAt(len, j \div 2)
         IN IF j % 2 = 0 THEN Times(h, h)
            ELSE Times(Times(h, h), <<Cos(-1, len), Sin(-1, len)>>)

\* entry k of a butterfly pass: u + v w in the upper half of a block of len
\* entries, u - v w in the lower half; z[k] is <<real[k-1], imag[k-1]>>
Butterfly(u, vw, upper) ==
    IF upper THEN <<Fld(u[1] + vw[1]), Fld(u[2] + vw[2])>>
    ELSE <<Fld(u[1] - vw[1]), Fld(u[2] - vw[2])>>

\* the twiddle factors of every pass of fft: Twiddles[len][j + 1] is
\* (wReal, wImag) at the j-th butterfly of a block of len entries
BlockLengths == {2, 4, 8, 16, 32, 64}

Twiddles ==
    Tuple([len \in 1 .. FFT_SIZE |->
              IF len \in BlockLengths
              THEN Tuple([k \in 1 .. len \div 2 |-> TwiddleAt(len, k - 1)])
              ELSE <<>>])

\* one pass of the butterfly loop of fft, for blocks of len entries
Butterflies(z, len) ==
    Tuple([k \in 1 .. Len(z) |->
        LET half == len \div 2
            j == (k - 1) % len
            u == IF j < half THEN k ELSE k - half
        IN Butterfly(z[u], Times(z[u + half], Twiddles[len][(j % half) + 1]), j < half)])

RECURSIVE ButterflyPasses(_, _)
ButterflyPasses(z, len) ==
    IF len > Len(z) THEN z ELSE ButterflyPasses(Butterflies(z, len), 2 * len)

\* fft: bit-reverse permutation, then the butterfly passes len = 2, 4, ..
Fft(z) ==
    ButterflyPasses(
        Tuple([k \in 1 .. Len(z) |-> z[BitReversed(k - 1, Len(z)) + 1]]), 2)

\* conjugate every entry and scale it by 1/n
ConjugateScaled(z, n) ==
    Tuple([k \in 1 .. Len(z) |->
              <<Fld(z[k][1] * Inverse(n)), Fld(-z[k][2] * Inverse(n))>>])

\* ifft: conjugate, forward fft, conjugate and scale by 1/N
Ifft(z) == ConjugateScaled(Fft(ConjugateScaled(z, 1)), Len(z))

\* DirectFFTProcessor constructor; the mask of the inactive (bypass)
\* configuration is all ones.  posted is what the processor has sent through
\* its port.  Of the host the record keeps the block size it calls with
\* (frameSize), the number of samples fed so far, and the last callback's
\* output block and return value.  emitted and delivered record every
\* sample put into the output ring and how many of them were handed out;
\* raised tells whether processBlock threw in the last callback.
NewProcessor(frameSize) ==
    [inputRingBuffer |-> Fill(RING_BUFFER_SIZE, 0),
     outputRingBuffer |-> Fill(RING_BUFFER_SIZE, 0),
     inputHead |-> 0, inputTail |-> 0, outputHead |-> 0, outputTail |-> 0,
     overlapBuffer |-> Fill(FFT_SIZE, 0),
     filterMask |-> Fill(FFT_SIZE, 1),
     processCount |-> 0,
     posted |-> <<"initialized">>,
     frameSize |-> frameSize, resized |-> 0, fed |-> 0,
     out |-> <<>>, returned |-> FALSE,
     emitted |-> <<>>, delivered |-> 0, raised |-> FALSE, errors |-> 0]

\* processBlock, step 1: the input block times the window, as a complex buffer
Windowed(inputBlock) ==
    Tuple([k \in 1 .. Len(inputBlock) |-> <<Fld(inputBlock[k] * Window[k]), 0>>])

\* processBlock, step 3: the spectrum times the filter mask
Masked(spectrum, filterMask) ==
    Tuple([k \in 1 .. Len(spectrum) |->
              <<Fld(spectrum[k][1] * filterMask[k]),
                Fld(spectrum[k][2] * filterMask[k])>>])

\* processBlock, step 5: window again, normalise, add the overlap buffer
OverlapAdded(processedBlock, overlapBuffer) ==
    Tuple([k \in 1 .. Len(processedBlock) |->
              Fld(processedBlock[k][1] * Window[k] * Inverse(WindowNorm)
                  + overlapBuffer[k])])

\* processBlock, steps 6 and 7: shift the overlap buffer by one hop, zero
\* its tail, count the block and return the first hop of the output buffer
Shifted(p, outputBuffer) ==
    [state |->
         [p EXCEPT !.overlapBuffer =
                       Tuple([k \in 1 .. Len(outputBuffer) |->
                                 IF k <= FFT_SIZE - HOP_SIZE
                                 THEN outputBuffer[k + HOP_SIZE] ELSE 0]),
                   !.processCount = @ + 1],
     hopOutput |-> SubSeq(outputBuffer, 1, HOP_SIZE)]

\* processBlock: window, FFT, mask, IFFT, window and overlap-add, shift of
\* the overlap buffer; fails says that the try block throws (before it has
\* stored anything that outlives the call).  Each buffer of the pipeline is
\* the one element of a set, so that it is computed before the step that
\* reads it.
ProcessBlock(p, inputBlock, fails) ==
    IF fails
    THEN [state |-> p, hopOutput |-> Fill(HOP_SIZE, 0)]
    ELSE CHOOSE result \in
             {Shifted(p, outputBuffer) :
                 outputBuffer \in
                     {OverlapAdded(processedBlock, p.overlapBuffer) :
                         processedBlock \in
                             {Ifft(filtered) :
                                 filtered \in
                                     {Masked(spectrum, p.filterMask) :
                                         spectrum \in
                                             {Fft(processBuffer) :
                                                 processBuffer \in
                                                     {Windowed(inputBlock)}}}}}} :
             TRUE

\* whether this callback runs processBlock
RunsBlock(p, inputChannel) ==
    /\ inputChannel # <<>>
    /\ GetRingBufferSize(
           EnqueueRingBuffer(p.inputRingBuffer, p.inputHead, inputChannel).head,
           p.inputTail) >= FFT_SIZE

\* process, after the block: q is the processor after processBlock (or as
\* it was), output the output ring and its head after the hop was queued;
\* hands out a frame if the ring holds one, zeros otherwise
Deliver(p, q, frameSize, input, output, hop, runs, fails) ==
    LET gives == GetRingBufferSize(output.head, p.outputTail) >= frameSize
        taken == DequeueRingBuffer(output.buffer, p.outputTail, frameSize)
    IN [q EXCEPT !.inputRingBuffer = input.buffer,
                 !.inputHead = input.head,
                 !.inputTail = IF runs THEN (@ + HOP_SIZE) % RING_BUFFER_SIZE ELSE @,
                 !.outputRingBuffer = output.buffer,
                 !.outputHead = output.head,
                 !.outputTail = IF gives THEN taken.tail ELSE @,
                 !.out = IF gives THEN taken.output ELSE Fill(frameSize, 0),
                 !.processCount = @ + 1,
                 !.posted = IF (q.processCount + 1) % ReportEvery = 0
                            THEN Append(@, "performance") ELSE @,
                 !.returned = TRUE,
                 !.fed = @ + frameSize,
                 !.emitted = @ \o hop,
                 !.delivered = IF gives THEN @ + frameSize ELSE @,
                 !.raised = runs /\ fails,
                 !.errors = IF runs /\ fails THEN @ + 1 ELSE @]

\* process, the block: with the peeked FFT_SIZE samples of the input ring run
\* through processBlock, queue the hop on the output ring
AfterBlock(p, frameSize, input, block, fails) ==
    Deliver(p, block.state, frameSize, input,
           EnqueueRingBuffer(p.outputRingBuffer, p.outputHead, block.hopOutput),
           block.hopOutput, TRUE, fails)

\* process, after the input was queued: one block if the input ring holds
\* FFT_SIZE samples
AfterEnqueue(p, frameSize, input, fails) ==
    IF GetRingBufferSize(input.head, p.inputTail) >= FFT_SIZE
    THEN AfterBlock(p, frameSize, input,
                 ProcessBlock(p, PeekRingBuffer(input.buffer, p.inputTail, FFT_SIZE),
                              fails),
                 fails)
    ELSE Deliver(p, p, frameSize, input,
                [buffer |-> p.outputRingBuffer, head |-> p.outputHead],
                <<>>, FALSE, fails)

\* process: one host callback.  Without an input channel it returns at
\* once and the output block stays as the host provided it, zero-filled.
Process(p, inputChannel, fails) ==
    IF inputChannel = <<>>
    THEN [p EXCEPT !.out = Fill(p.frameSize, 0), !.returned = TRUE, !.raised = FALSE]
    ELSE AfterEnqueue(p, Len(inputChannel),
                EnqueueRingBuffer(p.inputRingBuffer, p.inputHead, inputChannel), fails)

(***************************************************************************)
(* FFTAnalyzer: display data of the master spectrum.  Of every array the   *)
(* model keeps the length: binIndices, frequencyData and each array of     *)
(* the averaging buffer.                                                    *)
(***************************************************************************)

\* calculateDisplayBins without an argument
DefaultDisplayWidth == 800

\* updateConfig clamps averagingCount to 1 .. MaxAveraging
MaxAveraging == 10

\* no getDisplayData call yet
NoDisplayData == [kind |-> "none", length |-> 0, displayWidth |-> 0]

\* FFTAnalyzer constructor and setupAnalyzer (fftSize 2048, frequencyBinCount
\* = fftSize / 2, calculateFrequencyMappings), connected by the TrackManager
NewAnalyzer ==
    [isActive |-> FALSE,
     fftSize |-> 2048,
     frequencyData |-> 2048 \div 2,
     scaleType |-> "logarithmic",
     averagingCount |-> 1,
     averagingBuffer |-> <<>>,
     averagingIndex |-> 0,
     binIndices |-> [set |-> TRUE, length |-> DefaultDisplayWidth],
     last |-> NoDisplayData]

\* calculateDisplayBins
CalculateDisplayBins(a, displayWidth) ==
    [a EXCEPT !.binIndices = [set |-> TRUE, length |-> displayWidth]]

\* applyAveraging: allocate the buffer if its length is not averagingCount,
\* store the frame with Float32Array.set (a RangeError if the frame is
\* longer than the stored array), advance the index, average
ApplyAveraging(a, length) ==
    LET fresh == Len(a.averagingBuffer) # a.averagingCount
        buffer == IF fresh THEN [j \in 1 .. a.averagingCount |-> length]
                  ELSE a.averagingBuffer
        index == IF fresh THEN 0 ELSE a.averagingIndex
    IN IF length > buffer[index + 1]
       THEN [a EXCEPT !.averagingBuffer = buffer,
                      !.averagingIndex = index,
                      !.last = [kind |-> "throws", length |-> 0,
                                displayWidth |-> length]]
       ELSE [a EXCEPT !.averagingBuffer = buffer,
                      !.averagingIndex = (index + 1) % a.averagingCount,
                      !.last = [kind |-> "data", length |-> length,
                                displayWidth |-> length]]

\* getDisplayData: null when not active; otherwise recalculate the bins if
\* the width changed, map the raw data to displayWidth values, average
GetDisplayData(a, displayWidth) ==
    IF ~a.isActive
    THEN [a EXCEPT !.last = [kind |-> "null", length |-> 0,
                             displayWidth |-> displayWidth]]
    ELSE LET binned == IF ~a.binIndices.set \/ a.binIndices.length # displayWidth
                       THEN CalculateDisplayBins(a, displayWidth) ELSE a
         IN IF binned.averagingCount > 1
            THEN ApplyAveraging(binned, displayWidth)
            ELSE [binned EXCEPT !.last = [kind |-> "data", length |-> displayWidth,
                                          displayWidth |-> displayWidth]]

\* updateConfig({fftSize})
UpdateFftSize(a, fftSize) ==
    IF fftSize = a.fftSize THEN a
    ELSE CalculateDisplayBins(
             [a EXCEPT !.fftSize = fftSize,
                       !.frequencyData = fftSize \div 2,
                       !.averagingBuffer = <<>>,
                       !.averagingIndex = 0],
             DefaultDisplayWidth)

\* updateConfig({scaleType})
UpdateScaleType(a, scaleType) ==
    IF scaleType = a.scaleType THEN a
    ELSE [a EXCEPT !.scaleType = scaleType,
                   !.binIndices = [set |-> FALSE, length |-> 0]]

\* updateConfig({averagingCount})
UpdateAveragingCount(a, averagingCount) ==
    IF averagingCount = a.averagingCount THEN a
    ELSE [a EXCEPT !.averagingCount =
                       IF averagingCount < 1 THEN 1
                       ELSE IF averagingCount > MaxAveraging THEN MaxAveraging
                       ELSE averagingCount,
                   !.averagingBuffer = <<>>,
                   !.averagingIndex = 0]

(***************************************************************************)
(* The track loop of the offline renders: exportDirect, the exporter's     *)
(* processChunk (sequential chunks) and the worker's processChunk          *)
(* (parallel chunks).  A track's signal is kept as what was done to its    *)
(* noise: the filters that were applied, in order, and the factor it was   *)
(* multiplied by, in hundredths (FullGain is 1.0).  The mix is the list of *)
(* the signals that were summed.                                           *)
(***************************************************************************)

\* generateWhiteNoise, for the track at trackIndex
WhiteNoise(trackIndex) ==
    [track |-> trackIndex, applied |-> <<>>, factor |-> FullGain]

\* SimpleAudioExporter.applyFilterFFT: the plateau filter; data of any
\* other filter type is returned unchanged
ApplyFilterFFT(data, filter) ==
    IF filter.type = "plateau"
    THEN [data EXCEPT !.applied = Append(@, "plateau")]
    ELSE data

\* FFTProcessorWorker.applyFilterFFT: plateau, gaussian and parabolic
WorkerApplyFilterFFT(data, filter) ==
    IF filter.type = "plateau"
    THEN [data EXCEPT !.applied = Append(@, "plateau")]
    ELSE IF filter.type = "gaussian"
    THEN [data EXCEPT !.applied = Append(@, "gaussian")]
    ELSE IF filter.type = "parabolic"
    THEN [data EXCEPT !.applied = Append(@, "parabolic")]
    ELSE data

\* the filter loop of a track: every enabled filter, in order
RECURSIVE ApplyFilters(_, _, _)
ApplyFilters(Apply(_, _), trackData, filters) ==
    IF filters = <<>> THEN trackData
    ELSE ApplyFilters(Apply,
                      IF Head(filters).enabled
                      THEN Apply(trackData, Head(filters)) ELSE trackData,
                      Tail(filters))

\* Math.pow(10, (gain || 0) / 20), at the one gain of 0 .. FullGain that
\* reaches it
DbToLinear(gain) == CASE gain = 0 -> FullGain

\* trackGainLinear: the gain itself if 0 < gain < 10, else taken as dB
TrackGainLinear(gain) ==
    IF gain > 0 /\ gain < 10 * FullGain THEN gain ELSE DbToLinear(gain)

\* "Apply track gain": skipped for a gain of 1.0
ApplyTrackGain(trackData, gain) ==
    IF gain # FullGain
    THEN [trackData EXCEPT !.factor = (@ * TrackGainLinear(gain)) \div FullGain]
    ELSE trackData

\* the track loop from trackIndex on: a disabled track is skipped, an
\* enabled one is generated, filtered, scaled and summed into the mix
RECURSIVE MixTracks(_, _, _)
MixTracks(Apply(_, _), tracks, trackIndex) ==
    IF trackIndex > Len(tracks) THEN <<>>
    ELSE IF ~tracks[trackIndex].enabled
    THEN MixTracks(Apply, tracks, trackIndex + 1)
    ELSE <<ApplyTrackGain(
               ApplyFilters(Apply, WhiteNoise(trackIndex),
                            tracks[trackIndex].filters),
               tracks[trackIndex].gain)>>
             \o MixTracks(Apply, tracks, trackIndex + 1)

\* the mix of exportDirect; without tracks, a single white noise
ExportDirectMix(trackConfig) ==
    IF Len(trackConfig.tracks) > 0
    THEN MixTracks(ApplyFilterFFT, trackConfig.tracks, 1)
    ELSE <<WhiteNoise(0)>>

\* the mix of SimpleAudioExporter.processChunk
ProcessChunkMix(trackConfig) ==
    IF Len(trackConfig.tracks) > 0
    THEN MixTracks(ApplyFilterFFT, trackConfig.tracks, 1)
    ELSE <<WhiteNoise(0)>>

\* the mix of FFTProcessorWorker.processChunk
WorkerProcessChunkMix(trackConfig) ==
    IF Len(trackConfig.tracks) > 0
    THEN MixTracks(WorkerApplyFilterFFT, trackConfig.tracks, 1)
    ELSE <<WhiteNoise(0)>>

\* a render that has not run
NotRendered == [done |-> FALSE, data |-> <<>>]

\* the renders of one track configuration, before any of them ran
NewMix(trackConfig) ==
    [trackConfig |-> trackConfig,
     direct |-> NotRendered, sequential |-> NotRendered, parallel |-> NotRendered]

NoCalc ==
    [mode |-> "none", sampleRate |-> 0, totalSamples |-> 0, chunkSamples |-> 0,
     numChunks |-> 0, chunkIndex |-> 0, outputOffset |-> 0,
     lastOffset |-> 0, lastLen |-> 0]

Init ==
    /\ InitMachine
    /\ budget \in Budgets
    /\ form = DefaultForm
    /\ calc = NoCalc
    /\ track = NewTrack(0)
    /\ chain = NewChain
    /\ tm = NewTrackManager
    /\ stft = NewProcessor(HostBlock)
    /\ analyzer = NewAnalyzer
    /\ mix = NewMix([tracks |-> <<>>])
    /\ focus = "all"

Commit(W) ==
    /\ pool' = W.pool
    /\ exporter' = W.exporter
    /\ render' = W.render
    /\ em' = W.em

(***************************************************************************)
(* Worker initialisation (createWorker, initializeWorkers, and             *)
(* SimpleAudioExporter.initializeWorkers awaiting initPromise).            *)
(***************************************************************************)
\* faulty variant: a pool that counts itself initialized once every worker
\* has answered, however late
InitializationSucceedsLate(p) == \A v \in Workers : p.init[v] \in {"ready", "late"}

\* await Promise.all(workerPromises) goes on only when every createWorker
\* promise was resolved: a promise rejected by its timeout stays rejected
InitializationSucceeds(p) ==
    p.initPromise = "pending" /\ \A v \in Workers : p.init[v] = "ready"

\* the worker's 'initialized' message reaches createWorker's onmessage wrapper
WorkerInitialized(w) ==
    /\ w \notin pool.terminated
    /\ pool.init[w] \in {"pending", "timedout"}
    /\ LET p1 == [pool EXCEPT !.workers = Append(@, w),
                              !.availableWorkers = Append(@, w),
                              !.init[w] = IF @ = "pending" THEN "ready" ELSE "late"]
       IN IF InitializationSucceeds(p1)
          THEN /\ pool' = [p1 EXCEPT !.isInitialized = TRUE, !.initPromise = "true"]
               /\ exporter' = [workersSupported |-> TRUE, workersInitialized |-> TRUE]
          ELSE /\ pool' = p1
               /\ exporter' = exporter
    /\ UNCHANGED <<render, em, live, budget>>
    /\ UNCHANGED fixed

\* the 5000 ms timer of createWorker fires before the worker answered
InitTimeout(w) ==
    /\ pool.init[w] = "pending"
    /\ budget.timeouts > 0
    /\ budget' = [budget EXCEPT !.timeouts = @ - 1]
    /\ pool' = [pool EXCEPT !.init[w] = "timedout",
                            !.isInitialized =
                                IF pool.initPromise = "pending" THEN FALSE ELSE @,
                            !.initPromise =
                                IF @ = "pending" THEN "false" ELSE @]
    /\ UNCHANGED <<exporter, render, em, live>>
    /\ UNCHANGED fixed

(***************************************************************************)
(* The user: start export, cancel, edit the configuration.                 *)
(***************************************************************************)
FileChoices == {<<TRUE, FALSE>>, <<TRUE, TRUE>>}

StartExport(clips, duration, wav, cpp) ==
    /\ em.pc = "idle"
    /\ render.status # "running"
    /\ render.id + clips <= MaxRenders
    /\ Commit(GenerateClipAudio(
                [World EXCEPT !.em = [pc |-> "exporting", outcome |-> "none",
                                      settings |-> [clips |-> clips,
                                                    duration |-> duration,
                                                    wavEnabled |-> wav,
                                                    cppEnabled |-> cpp,
                                                    cfg |-> live] @@ form,
                                      clips |-> <<>>, files |-> {},
                                      discarded |-> 0, finalAudio |-> <<>>,
                                      cancelExport |-> FALSE]]))
    /\ UNCHANGED <<live, budget>>
    /\ UNCHANGED fixed

\* the 1000 ms pause at the end of performExport, then startExport hides the UI
ExportCompleted ==
    /\ em.pc = "completing"
    /\ em' = [em EXCEPT !.pc = "idle", !.cancelExport = FALSE]
    /\ UNCHANGED <<pool, exporter, render, live, budget>>
    /\ UNCHANGED fixed

\* cancelButton.onclick
CancelClick ==
    /\ em.cancelExport
    /\ ~render.exportCancelled
    /\ budget.cancels > 0
    /\ budget' = [budget EXCEPT !.cancels = @ - 1]
    /\ render' = [render EXCEPT !.exportCancelled = TRUE]
    /\ UNCHANGED <<pool, exporter, em, live>>
    /\ UNCHANGED fixed

\* an edit of the tracks, their filters or the export form; edits matter to a
\* render only while an export is in progress, and values are never reused
EditConfiguration ==
    /\ em.pc = "exporting"
    /\ live + 1 \in Configs
    /\ budget.edits > 0
    /\ budget' = [budget EXCEPT !.edits = @ - 1]
    /\ live' = live + 1
    /\ UNCHANGED <<pool, exporter, render, em>>
    /\ UNCHANGED fixed

(***************************************************************************)
(* Timers and worker messages.                                             *)
(***************************************************************************)
\* setTimeout(resolve, 1) of the sequential loop
SeqTimer ==
    /\ render.status = "running"
    /\ render.mode = "seq"
    /\ Commit(IF render.chunkIndex < render.numChunks
              THEN SeqChunkStep(World)
              ELSE FinalizeChunked(World, render.finalResult))
    /\ UNCHANGED <<live, budget>>
    /\ UNCHANGED fixed

CountAfterCancel(r, p, id) ==
    IF r.status = "running" /\ r.exportCancelled /\ id \in p.activeJobs
       /\ JobOf(p, id).render = r.id
    THEN [r EXCEPT !.afterCancel = @ + 1]
    ELSE r

\* the worker answers its oldest message with 'chunkComplete'
WorkerChunkComplete(w) ==
    /\ pool.inbox[w] # <<>>
    /\ LET m == Head(pool.inbox[w])
           p1 == [pool EXCEPT !.inbox[w] = Tail(@)]
       IN Commit(ContinueProcessChunksParallel(
                   [World EXCEPT !.pool = HandleJobComplete(p1, w, m.jobId,
                                              MixedData(m.chunk, m.len, m.cfg)),
                                 !.render = CountAfterCancel(render, pool, m.jobId)]))
    /\ UNCHANGED <<live, budget>>
    /\ UNCHANGED fixed

\* the worker answers its oldest message with 'chunkError'
WorkerChunkError(w) ==
    /\ pool.inbox[w] # <<>>
    /\ Head(pool.inbox[w]).chunk < BadChunks
    /\ budget.faults > 0
    /\ budget' = [budget EXCEPT !.faults = @ - 1]
    /\ LET m == Head(pool.inbox[w])
           p1 == [pool EXCEPT !.inbox[w] = Tail(@)]
       IN Commit(ContinueProcessChunksParallel(
                   [World EXCEPT !.pool = HandleJobError(p1, w, m.jobId)]))
    /\ UNCHANGED live
    /\ UNCHANGED fixed

\* worker.onerror / onmessageerror: the worker fails, whatever it was doing
WorkerErrorEvent(w) ==
    /\ w \notin pool.terminated
    /\ w \in Range(pool.workers)
    /\ w < FlakyWorkers
    /\ budget.faults > 0
    /\ budget' = [budget EXCEPT !.faults = @ - 1]
    /\ LET p1 == [pool EXCEPT !.inbox[w] = IF @ = <<>> THEN @ ELSE Tail(@)]
       IN Commit(ContinueProcessChunksParallel(
                   [World EXCEPT !.pool = HandleWorkerError(p1, w)]))
    /\ UNCHANGED live
    /\ UNCHANGED fixed

\* the retry timer set by handleJobError fires
RetryTimer(id) ==
    /\ id \in pool.timers
    /\ Commit([World EXCEPT !.pool =
                  AssignJobToWorker([pool EXCEPT !.timers = @ \ {id}], id)])
    /\ UNCHANGED <<live, budget>>
    /\ UNCHANGED fixed

(***************************************************************************)
(* Other callers of the pool's public methods.                             *)
(***************************************************************************)
ApiChunks == PoolSize + 1

\* processChunksParallel called directly with ApiChunks one-sample chunks
ApiProcessChunksParallel ==
    /\ em.pc = "idle"
    /\ render.status # "running"
    /\ render.id < MaxRenders
    /\ Commit(ProcessChunksParallel(
                [World EXCEPT !.render =
                    [NoRender EXCEPT !.status = "running", !.mode = "api",
                                     !.id = render.id + 1,
                                     !.totalSamples = ApiChunks,
                                     !.chunkSamples = 1,
                                     !.numChunks = ApiChunks,
                                     !.trackConfig = [tracks |-> live,
                                                      settings |-> live]]]))
    /\ budget.apiCalls > 0
    /\ budget' = [budget EXCEPT !.apiCalls = @ - 1]
    /\ UNCHANGED live
    /\ UNCHANGED fixed

ApiTerminate ==
    /\ budget.terminates > 0
    /\ budget' = [budget EXCEPT !.terminates = @ - 1]
    /\ Commit(ContinueProcessChunksParallel(
                [World EXCEPT !.pool = Terminate(pool)]))
    /\ UNCHANGED live
    /\ UNCHANGED fixed

Next ==
    \/ \E w \in Workers : WorkerInitialized(w)
    \/ \E w \in Workers : InitTimeout(w)
    \/ \E clips \in 1 .. MaxClips, f \in FileChoices :
          StartExport(clips, MaxDuration, f[1], f[2])
    \/ ExportCompleted
    \/ CancelClick
    \/ EditConfiguration
    \/ SeqTimer
    \/ \E w \in Workers : WorkerChunkComplete(w)
    \/ \E w \in Workers : WorkerChunkError(w)
    \/ \E w \in Workers : WorkerErrorEvent(w)
    \/ \E id \in 0 .. (MaxRenders * (MaxDuration + PoolSize)) : RetryTimer(id)
    \/ ApiProcessChunksParallel
    \/ ApiTerminate

Spec == Init /\ [][Next]_vars

(***************************************************************************)
(* The worker pool on its own, under fair scheduling: a worker that holds  *)
(* a message answers it (with 'chunkComplete', 'chunkError' or an error    *)
(* event), a timer that was set fires, a worker that was created reports   *)
(* 'initialized'.  Callers submit chunk batches when they like; enough     *)
(* faults are allowed for one worker to be removed and one job to exhaust  *)
(* its retries.                                                            *)
(***************************************************************************)
\* no fault, no cancel, no edit
QuietBudget ==
    [faults |-> 0, cancels |-> 0, edits |-> 0, terminates |-> 0,
     timeouts |-> 0, apiCalls |-> 0]

PoolFaults == (WorkerErrorLimit + 1) + (maxRetries + 1)

InitPool ==
    /\ InitMachine
    /\ budget = [QuietBudget EXCEPT !.faults = PoolFaults, !.apiCalls = MaxRenders]
    /\ form = DefaultForm
    /\ calc = NoCalc
    /\ track = NewTrack(0)
    /\ chain = NewChain
    /\ tm = NewTrackManager
    /\ stft = NewProcessor(HostBlock)
    /\ analyzer = NewAnalyzer
    /\ mix = NewMix([tracks |-> <<>>])
    /\ focus = "all"

\* worker w answers the message it holds
WorkerAnswers(w) ==
    \/ WorkerChunkComplete(w)
    \/ WorkerChunkError(w)
    \/ (pool.inbox[w] # <<>> /\ WorkerErrorEvent(w))

PoolJobIds == 0 .. (MaxRenders * ApiChunks - 1)

NextPool ==
    \/ \E w \in Workers : WorkerInitialized(w)
    \/ ApiProcessChunksParallel
    \/ \E w \in Workers : WorkerChunkComplete(w)
    \/ \E w \in Workers : WorkerChunkError(w)
    \/ \E w \in Workers : WorkerErrorEvent(w)
    \/ \E id \in PoolJobIds : RetryTimer(id)

\* Workers answer, timers fire and workers start up only finitely often in
\* a behaviour (submissions and faults are bounded), so fairness to each
\* kind of step is fairness to each worker and each timer.
FairPool ==
    /\ WF_vars(\E w \in Workers : WorkerInitialized(w))
    /\ WF_vars(\E w \in Workers : WorkerAnswers(w))
    /\ WF_vars(\E id \in PoolJobIds : RetryTimer(id))

SpecPool == InitPool /\ [][NextPool]_vars /\ FairPool

(***************************************************************************)
(* The export dialog: reliable workers, a user who lets the export run,    *)
(* and every setting of the processing controls.                           *)
(***************************************************************************)
InitForm ==
    /\ InitMachine
    /\ budget = QuietBudget
    /\ form \in Forms
    /\ calc = NoCalc
    /\ track = NewTrack(0)
    /\ chain = NewChain
    /\ tm = NewTrackManager
    /\ stft = NewProcessor(HostBlock)
    /\ analyzer = NewAnalyzer
    /\ mix = NewMix([tracks |-> <<>>])
    /\ focus = "all"

NextForm ==
    \/ \E w \in Workers : WorkerInitialized(w)
    \/ \E clips \in 1 .. MaxClips, f \in FileChoices :
          StartExport(clips, MaxDuration, f[1], f[2])
    \/ ExportCompleted
    \/ SeqTimer
    \/ \E w \in Workers : WorkerChunkComplete(w)

SpecForm == InitForm /\ [][NextForm]_vars

(***************************************************************************)
(* One track of the live mixer: the calls of its interface in any order,   *)
(* interleaved with the delivery of port messages, the end of gain ramps   *)
(* and the firing of stop timers.                                          *)
(***************************************************************************)
GainInputs == {0, FullGain \div 2, FullGain + FullGain \div 2}

export == <<pool, exporter, render, em, live, budget, form, calc>>

\* what a call on the track, and what a call on the chain, leaves alone
exceptTrack == <<export, chain, tm, focus, stft, analyzer, mix>>
exceptChain == <<export, track, tm, focus, stft, analyzer, mix>>
exceptManager == <<export, track, chain, focus, stft, analyzer, mix>>

\* the calls go to this object
Focused(object) == focus \in {"all", object}

InitTrack ==
    /\ InitMachine
    /\ budget = QuietBudget
    /\ form = DefaultForm
    /\ calc = NoCalc
    /\ track = NewTrack(0)
    /\ chain = NewChain
    /\ tm = NewTrackManager
    /\ stft = NewProcessor(HostBlock)
    /\ analyzer = NewAnalyzer
    /\ mix = NewMix([tracks |-> <<>>])
    /\ focus = "all"

CallStart ==
    /\ ~track.destroyed
    /\ InFlightBounded(TrackStart(track))
    /\ track' = TrackStart(track)
    /\ UNCHANGED exceptTrack

CallStop ==
    /\ ~track.destroyed
    /\ track.isPlaying
    /\ InFlightBounded(TrackStop(track))
    /\ track' = TrackStop(track)
    /\ UNCHANGED exceptTrack

CallSetGain ==
    \E g \in GainInputs :
        /\ ~track.destroyed
        /\ InFlightBounded(TrackSetGain(track, g))
        /\ track' = TrackSetGain(track, g)
        /\ UNCHANGED exceptTrack

CallSetMuted ==
    \E m \in BOOLEAN :
        /\ ~track.destroyed
        /\ InFlightBounded(TrackSetMuted(track, m))
        /\ track' = TrackSetMuted(track, m)
        /\ UNCHANGED exceptTrack

\* TrackManager.removeTrack, TrackManager.destroy: the track is destroyed
\* and no longer referenced, so no call follows
CallDestroy ==
    /\ ~track.destroyed
    /\ InFlightBounded(TrackDestroy(track))
    /\ track' = TrackDestroy(track)
    /\ UNCHANGED exceptTrack

TimerFires ==
    /\ track.timers > 0
    /\ InFlightBounded(StopTimerFires(track))
    /\ track' = StopTimerFires(track)
    /\ UNCHANGED exceptTrack

MessageDelivered ==
    /\ track.port # <<>>
    /\ track' = DeliverMessage(track)
    /\ UNCHANGED exceptTrack

RampCompleted ==
    /\ track.gainNode.ramps # <<>>
    /\ track' = RampEnds(track)
    /\ UNCHANGED exceptTrack

NextTrack ==
    \/ CallStart
    \/ CallStop
    \/ CallSetGain
    \/ CallSetMuted
    \/ CallDestroy
    \/ TimerFires
    \/ MessageDelivered
    \/ RampCompleted

SpecTrack == InitTrack /\ [][NextTrack]_vars

(***************************************************************************)
(* One filter chain: the calls of its interface in any order, with indices *)
(* inside and outside the chain, and the processors of advanced filters    *)
(* becoming ready or not.                                                  *)
(***************************************************************************)
Indices == -1 .. MaxFilters

ParamNames == {"frequency", "centerFreq"}

ParamValues == {2 * CenterFreqMax}

InitChain ==
    /\ InitMachine
    /\ budget = QuietBudget
    /\ form = DefaultForm
    /\ calc = NoCalc
    /\ track = NewTrack(0)
    /\ chain = NewChain
    /\ tm = NewTrackManager
    /\ stft = NewProcessor(HostBlock)
    /\ analyzer = NewAnalyzer
    /\ mix = NewMix([tracks |-> <<>>])
    /\ focus = "all"

RoomForFilter ==
    /\ Len(chain.filters) + Cardinality(chain.pending) < MaxFilters
    /\ chain.nextNode - (OutputNode + 1) < MaxFilterNodes

CallAddStandard ==
    \E type \in StandardTypes :
        /\ Focused("chain")
        /\ RoomForFilter
        /\ chain' = AddStandardFilter(chain, type)
        /\ UNCHANGED exceptChain

CallAddAdvanced ==
    \E type \in AdvancedTypes :
        /\ Focused("chain")
        /\ RoomForFilter
        /\ chain' = BeginAdvancedFilter(chain, type)
        /\ UNCHANGED exceptChain

ProcessorReady ==
    \E a \in chain.pending :
        /\ Focused("chain")
        /\ chain' = FinishAdvancedFilter(chain, a)
        /\ UNCHANGED exceptChain

ProcessorTimeout ==
    \E a \in chain.pending :
        /\ Focused("chain")
        /\ chain' = FailAdvancedFilter(chain, a)
        /\ UNCHANGED exceptChain

CallRemoveFilter ==
    \E i \in Indices :
        /\ Focused("chain")
        /\ chain' = RemoveFilter(chain, i)
        /\ UNCHANGED exceptChain

CallMoveFilter ==
    \E i \in Indices, j \in Indices :
        /\ Focused("chain")
        /\ chain' = MoveFilter(chain, i, j)
        /\ UNCHANGED exceptChain

CallSetFilterParameter ==
    \E i \in Indices, key \in ParamNames, v \in ParamValues :
        /\ Focused("chain")
        /\ chain' = SetFilterParameter(chain, i, key, v)
        /\ UNCHANGED exceptChain

CallSetFilterEnabled ==
    \E i \in Indices, e \in BOOLEAN :
        /\ Focused("chain")
        /\ chain' = SetFilterEnabled(chain, i, e)
        /\ UNCHANGED exceptChain

NextChain ==
    \/ CallAddStandard
    \/ CallAddAdvanced
    \/ ProcessorReady
    \/ ProcessorTimeout
    \/ CallRemoveFilter
    \/ CallMoveFilter
    \/ CallSetFilterParameter
    \/ CallSetFilterEnabled

SpecChain == InitChain /\ [][NextChain]_vars

(***************************************************************************)
(* The track manager: its calls in any order, with ids inside and outside  *)
(* the track set.                                                          *)
(***************************************************************************)
TrackIds == -1 .. MaxTracks

CallAddTrack ==
    /\ Focused("manager")
    /\ Len(tm.tracks) < MaxTracks
    /\ tm.nextUid < MaxTrackObjects
    /\ tm' = AddTrack(tm)
    /\ UNCHANGED exceptManager

CallRemoveTrack ==
    \E id \in TrackIds :
        /\ Focused("manager")
        /\ tm' = RemoveTrack(tm, id)
        /\ UNCHANGED exceptManager

CallGetTrack ==
    \E id \in TrackIds :
        /\ Focused("manager")
        /\ tm' = GetTrack(tm, id)
        /\ UNCHANGED exceptManager

CallStartAll ==
    /\ Focused("manager")
    /\ tm.starting < MaxPending
    /\ tm' = StartAll(tm)
    /\ UNCHANGED exceptManager

CallStopAll ==
    /\ Focused("manager")
    /\ tm' = StopAll(tm)
    /\ UNCHANGED exceptManager

CallMuteTrack ==
    \E id \in TrackIds, muted \in BOOLEAN :
        /\ Focused("manager")
        /\ tm' = MuteTrack(tm, id, muted)
        /\ UNCHANGED exceptManager

ContextSuspended ==
    /\ Focused("manager")
    /\ tm.context = "running"
    /\ tm' = SuspendContext(tm)
    /\ UNCHANGED exceptManager

ContextResumed ==
    /\ Focused("manager")
    /\ tm.context = "suspended"
    /\ tm' = ResumeContext(tm)
    /\ UNCHANGED exceptManager

NextManager ==
    \/ ContextSuspended
    \/ ContextResumed
    \/ CallAddTrack
    \/ CallRemoveTrack
    \/ CallGetTrack
    \/ CallStartAll
    \/ CallStopAll
    \/ CallMuteTrack

(***************************************************************************)
(* The mixer's collections: calls on one filter chain or on the track      *)
(* manager.  The two share no state, so a behaviour follows one of them.   *)
(***************************************************************************)
InitMixer ==
    /\ InitMachine
    /\ budget = QuietBudget
    /\ form = DefaultForm
    /\ calc = NoCalc
    /\ track = NewTrack(0)
    /\ chain = NewChain
    /\ tm = NewTrackManager
    /\ stft = NewProcessor(HostBlock)
    /\ analyzer = NewAnalyzer
    /\ mix = NewMix([tracks |-> <<>>])
    /\ focus \in {"chain", "manager"}

NextMixer == NextChain \/ NextManager

SpecMixer == InitMixer /\ [][NextMixer]_vars

(***************************************************************************)
(* The STFT processor under its host: callbacks with the next block of the *)
(* input stream, callbacks with no input connected, a host that changes    *)
(* its block size, and blocks whose processing throws.  A stream has       *)
(* blocks that throw or changes of block size, not both.                   *)
(***************************************************************************)
exceptStft == <<export, track, chain, tm, focus, analyzer, mix>>

InitStft ==
    /\ InitMachine
    /\ budget = QuietBudget
    /\ form = DefaultForm
    /\ calc = NoCalc
    /\ track = NewTrack(0)
    /\ chain = NewChain
    /\ tm = NewTrackManager
    /\ focus = "all"
    /\ stft \in {NewProcessor(f) : f \in FrameSizes}
    /\ analyzer = NewAnalyzer
    /\ mix = NewMix([tracks |-> <<>>])

HostCallback ==
    \E fails \in BOOLEAN :
        LET inputChannel ==
                Tuple([k \in 1 .. stft.frameSize |-> InputSample(stft.fed + k - 1)])
        IN /\ stft.fed + stft.frameSize <= MaxSamples
           /\ fails => (/\ stft.errors < MaxBlockErrors
                        /\ stft.resized = 0
                        /\ RunsBlock(stft, inputChannel))
           /\ stft' = Process(stft, inputChannel, fails)
           /\ UNCHANGED exceptStft

HostCallbackNoInput ==
    /\ stft' = Process(stft, <<>>, FALSE)
    /\ UNCHANGED exceptStft

HostChangesBlockSize ==
    \E f \in FrameSizes \ {stft.frameSize} :
        /\ stft.resized < MaxResizes
        /\ stft.errors = 0
        /\ stft' = [stft EXCEPT !.frameSize = f, !.resized = @ + 1]
        /\ UNCHANGED exceptStft

NextStft ==
    \/ HostCallback
    \/ HostCallbackNoInput
    \/ HostChangesBlockSize

SpecStft == InitStft /\ [][NextStft]_vars

(***************************************************************************)
(* The analyzer on its own: display reads at changing widths, with         *)
(* reconfigurations in between.                                            *)
(***************************************************************************)
exceptAnalyzer == <<export, track, chain, tm, focus, stft, mix>>

\* the pixel widths the display asks for
DisplayWidths == {400, DefaultDisplayWidth, 1200}

FftSizes == {1024, 2048, 4096}

AveragingCounts == {0, 1, 2, 3, MaxAveraging + 1}

InitAnalyzer ==
    /\ InitMachine
    /\ budget = QuietBudget
    /\ form = DefaultForm
    /\ calc = NoCalc
    /\ track = NewTrack(0)
    /\ chain = NewChain
    /\ tm = NewTrackManager
    /\ focus = "all"
    /\ stft = NewProcessor(HostBlock)
    /\ analyzer = NewAnalyzer
    /\ mix = NewMix([tracks |-> <<>>])

AnalyzerStart ==
    /\ analyzer' = [analyzer EXCEPT !.isActive = TRUE]
    /\ UNCHANGED exceptAnalyzer

AnalyzerStop ==
    /\ analyzer' = [analyzer EXCEPT !.isActive = FALSE]
    /\ UNCHANGED exceptAnalyzer

CallGetDisplayData ==
    \E displayWidth \in DisplayWidths :
        /\ analyzer' = GetDisplayData(analyzer, displayWidth)
        /\ UNCHANGED exceptAnalyzer

CallUpdateFftSize ==
    \E fftSize \in FftSizes :
        /\ analyzer' = UpdateFftSize(analyzer, fftSize)
        /\ UNCHANGED exceptAnalyzer

CallUpdateScaleType ==
    \E scaleType \in {"logarithmic", "linear"} :
        /\ analyzer' = UpdateScaleType(analyzer, scaleType)
        /\ UNCHANGED exceptAnalyzer

CallUpdateAveragingCount ==
    \E averagingCount \in AveragingCounts :
        /\ analyzer' = UpdateAveragingCount(analyzer, averagingCount)
        /\ UNCHANGED exceptAnalyzer

NextAnalyzer ==
    \/ AnalyzerStart
    \/ AnalyzerStop
    \/ CallGetDisplayData
    \/ CallUpdateFftSize
    \/ CallUpdateScaleType
    \/ CallUpdateAveragingCount

SpecAnalyzer == InitAnalyzer /\ [][NextAnalyzer]_vars

(***************************************************************************)
(* The offline renders of one track configuration: the direct export, a    *)
(* chunk of the sequential path and a chunk of the parallel path, in any   *)
(* order.  The configuration is what Track.getExportConfig gives: enabled  *)
(* (not muted), the linear gain in 0 .. 1, and the filters.                *)
(***************************************************************************)
exceptMix == <<export, track, chain, tm, focus, stft, analyzer>>

ExportFilterTypes == {"plateau", "gaussian", "parabolic"}

MixGains == {0, FullGain \div 2, FullGain}

FilterConfigs == [type : ExportFilterTypes, enabled : BOOLEAN]

FilterLists == UNION {[1 .. n -> FilterConfigs] : n \in 0 .. MaxMixFilters}

TrackConfigs == [enabled : BOOLEAN, gain : MixGains, filters : FilterLists]

TrackLists == UNION {[1 .. n -> TrackConfigs] : n \in 0 .. MaxMixTracks}

InitRender ==
    /\ InitMachine
    /\ budget = QuietBudget
    /\ form = DefaultForm
    /\ calc = NoCalc
    /\ track = NewTrack(0)
    /\ chain = NewChain
    /\ tm = NewTrackManager
    /\ focus = "all"
    /\ stft = NewProcessor(HostBlock)
    /\ analyzer = NewAnalyzer
    /\ mix \in {NewMix([tracks |-> tracks]) : tracks \in TrackLists}

RenderDirect ==
    /\ ~mix.direct.done
    /\ mix' = [mix EXCEPT !.direct =
                  [done |-> TRUE, data |-> ExportDirectMix(mix.trackConfig)]]
    /\ UNCHANGED exceptMix

RenderSequentialChunk ==
    /\ ~mix.sequential.done
    /\ mix' = [mix EXCEPT !.sequential =
                  [done |-> TRUE, data |-> ProcessChunkMix(mix.trackConfig)]]
    /\ UNCHANGED exceptMix

RenderParallelChunk ==
    /\ ~mix.parallel.done
    /\ mix' = [mix EXCEPT !.parallel =
                  [done |-> TRUE, data |-> WorkerProcessChunkMix(mix.trackConfig)]]
    /\ UNCHANGED exceptMix

NextRender ==
    \/ RenderDirect
    \/ RenderSequentialChunk
    \/ RenderParallelChunk

SpecRender == InitRender /\ [][NextRender]_vars

(***************************************************************************)
(* The chunk loops at real size: one chunked render of a clip of some      *)
(* duration (in milliseconds, as the dialog gives it) at a sample rate the *)
(* dialog offers, on the sequential or on the parallel path.  Only the     *)
(* lengths and offsets of the chunks are followed.                         *)
(***************************************************************************)
SampleRates == {44100, 48000}

DurationsMs == DurationBaseMs .. (DurationBaseMs + DurationSpanMs)

\* shouldUseChunkedProcessing: estimated memory above 500 MB
ShouldUseChunkedProcessing(totalSamples) == totalSamples * 4 * 5 > 500 * (1024 * 1024)

\* exportChunkedSequential / exportChunkedParallel up to their chunk loops
StartCalc(mode, durationMs, sampleRate) ==
    LET totalSamples == FloorDivMul(durationMs, 1000, sampleRate)
        chunkSamples == (IF mode = "seq" THEN SeqChunkSeconds ELSE ParChunkSeconds)
                        * sampleRate
    IN [mode |-> mode, sampleRate |-> sampleRate, totalSamples |-> totalSamples,
        chunkSamples |-> chunkSamples,
        numChunks |-> CeilDiv(totalSamples, chunkSamples),
        chunkIndex |-> 0, outputOffset |-> 0, lastOffset |-> 0, lastLen |-> 0]

InitChunks ==
    /\ InitMachine
    /\ budget = QuietBudget
    /\ form = DefaultForm
    /\ track = NewTrack(0)
    /\ chain = NewChain
    /\ tm = NewTrackManager
    /\ stft = NewProcessor(HostBlock)
    /\ analyzer = NewAnalyzer
    /\ mix = NewMix([tracks |-> <<>>])
    /\ focus = "all"
    /\ \E mode \in {"seq", "par"}, ms \in DurationsMs, sr \in SampleRates :
          /\ ShouldUseChunkedProcessing(FloorDivMul(ms, 1000, sr))
          /\ calc = StartCalc(mode, ms, sr)

\* finalResult.set(chunkResult, outputOffset); outputOffset += chunkResult.length
PlaceChunk(c, len) ==
    [c EXCEPT !.lastOffset = c.outputOffset, !.lastLen = len,
              !.outputOffset = @ + len, !.chunkIndex = @ + 1]

\* one iteration of the sequential loop: the chunk is what processChunk returns
PlaceSeqChunk ==
    /\ calc.mode = "seq"
    /\ calc.chunkIndex < calc.numChunks
    /\ calc' = PlaceChunk(calc,
                   ProcessChunkSamples(
                       ChunkLen(calc.chunkIndex, calc.chunkSamples, calc.totalSamples),
                       calc.sampleRate))
    /\ UNCHANGED <<pool, exporter, render, em, live, budget, form, audio>>

\* one iteration of the assembly loop of the parallel path: the chunk is as
\* long as the placeholder that was sent to the worker
PlaceParChunk ==
    /\ calc.mode = "par"
    /\ calc.chunkIndex < calc.numChunks
    /\ calc' = PlaceChunk(calc,
                   ChunkLen(calc.chunkIndex, calc.chunkSamples, calc.totalSamples))
    /\ UNCHANGED <<pool, exporter, render, em, live, budget, form, audio>>

NextChunks == PlaceSeqChunk \/ PlaceParChunk

SpecChunks == InitChunks /\ [][NextChunks]_vars

(***************************************************************************)
(* Properties.                                                             *)
(***************************************************************************)
JobIndices == 1 .. Len(pool.jobs)

CurrentJobs == {i \in JobIndices : pool.jobs[i].render = render.id}

\* C1: a chunk job is handed to a worker at most maxRetries + 1 = 4 times (at
\* most 3 re-dispatches after failures); a job rejected for failure has been
\* dispatched exactly 4 times, and a job that failed 4 times is rejected, is
\* no longer active, has no retry pending, and the render it belongs to has
\* failed with the job's error.
RetryLimit ==
    \A i \in JobIndices :
        LET j == pool.jobs[i] IN
        /\ j.dispatches <= maxRetries + 1
        /\ j.retryCount <= maxRetries + 1
        /\ j.error = "WorkerJobFailed" => j.dispatches = maxRetries + 1
        /\ j.retryCount > maxRetries =>
              /\ j.state = "rejected"
              /\ j.error = "WorkerJobFailed"
              /\ j.id \notin pool.activeJobs
              /\ j.id \notin pool.timers
              /\ i \in CurrentJobs =>
                    render.status = "failed" /\ render.error = "WorkerJobFailed"

\* a job failed on all four of its dispatches and took its render down
RetryLimitWitness ==
    \E i \in CurrentJobs :
        /\ pool.jobs[i].dispatches = maxRetries + 1
        /\ pool.jobs[i].retryCount = maxRetries + 1
        /\ pool.jobs[i].state = "rejected"
        /\ render.status = "failed"

\* C2: the results of a parallel render are in chunk-index order: slot i of
\* the results holds the output of chunk i, whatever the completion order and
\* the retries, and the assembled buffer of a finished render is the chunks'
\* outputs concatenated in index order.
ChunkOrder ==
    /\ render.mode \in {"par", "api"} =>
          \A i \in 1 .. Len(render.results) :
              \A k \in 1 .. Len(render.results[i]) :
                  render.results[i][k].chunk = i - 1
    /\ (render.mode \in {"par", "api"} /\ render.status = "done") =>
          \A i \in 1 .. render.numChunks :
              Len(render.results[i]) =
                  ChunkLen(i - 1, render.chunkSamples, render.totalSamples)
    /\ (render.mode = "par" /\ render.status = "done") =>
          /\ Len(render.finalData) = render.totalSamples
          /\ \A k \in 1 .. Len(render.finalData) :
                render.finalData[k].chunk = (k - 1) \div render.chunkSamples

\* a parallel render of several batches finished although one of its jobs
\* completed only after a retry
ChunkOrderWitness ==
    /\ render.mode = "par"
    /\ render.status = "done"
    /\ render.numChunks > PoolSize
    /\ \E i \in CurrentJobs : pool.jobs[i].retryCount >= 1

\* C3: once cancellation is requested during a chunked render, at most one
\* further chunk of that render is processed to completion.
CancelWithinOneChunk == render.afterCancel <= 1

\* C4: once cancellation is requested during a parallel render, no job of the
\* render that has not been dispatched yet is dispatched afterwards.
NoDispatchAfterCancel ==
    [][(render.status = "running" /\ render.mode = "par" /\ render.exportCancelled)
          => \A i \in CurrentJobs :
                 pool.jobs[i].dispatches = 0 => pool'.jobs[i].dispatches = 0]_vars

\* C5: when the render of any clip of an export fails or is cancelled, the
\* export writes no WAV and no header file and keeps none of the clips already
\* rendered; files exist only for an export all of whose clips were rendered.
NoFilesAfterFailedClip ==
    /\ (render.status = "failed" /\ render.mode # "api") =>
          em.outcome = "failed" /\ em.pc = "idle"
    /\ em.outcome = "failed" => em.files = {} /\ em.clips = <<>>
    /\ em.files # {} => em.outcome = "ok" /\ Len(em.clips) = em.settings.clips

\* an export failed in a later clip, after an earlier clip had been rendered
NoFilesAfterFailedClipWitness ==
    /\ em.outcome = "failed"
    /\ render.status = "failed"
    /\ em.discarded >= 1

\* C6: a worker is never handed a job from outside the queue while other jobs
\* wait in the queue (jobs are dispatched in submission order and a retried
\* job does not overtake queued jobs).
FifoDispatch == \A i \in JobIndices : ~pool.jobs[i].overtook

\* C7: a worker that has failed 3 times is no longer in the pool and is never
\* handed a job again.
RemovedAfterThreeFailures ==
    \A w \in Workers :
        pool.workerErrors[w] >= 3 =>
            /\ w \notin Range(pool.workers)
            /\ w \notin Range(pool.availableWorkers)
            /\ w \notin pool.busyWorkers

\* C8: once the 5 s initialisation timer of some worker has fired, the pool is
\* not initialized and never becomes so, exports take the sequential path, and
\* no chunk job is posted to any worker, even after the late 'initialized'
\* message of that worker.
InitTimeoutDegrades ==
    (\E w \in Workers : pool.init[w] \in {"timedout", "late"}) =>
        /\ ~pool.isInitialized
        /\ ~IsAvailable(pool)
        /\ ~exporter.workersInitialized
        /\ render.mode # "par"
        /\ \A w \in Workers : pool.inbox[w] = <<>> /\ pool.currentJob[w] = NoJob
        /\ \A i \in JobIndices : pool.jobs[i].dispatches = 0

\* every worker has joined the pool, one of them after its timer fired, and
\* an export has since rendered a clip sequentially
InitTimeoutDegradesWitness ==
    /\ \E w \in Workers : pool.init[w] = "late"
    /\ Len(pool.workers) = PoolSize
    /\ render.mode = "seq"
    /\ render.status = "done"

\* C9: processChunksParallel called while the pool is not initialized fails
\* with the not-initialized error and creates and dispatches no job: the pool
\* is left exactly as it was.
NotInitializedRejects ==
    [][(render'.id # render.id /\ render'.mode = "api" /\ ~pool.isInitialized)
          => /\ render'.status = "failed"
             /\ render'.error = "NotInitialized"
             /\ render'.jobIds = <<>>
             /\ pool' = pool]_vars

\* the call was refused on a pool that had been initialized and then terminated
NotInitializedRejectsWitness ==
    /\ render.mode = "api"
    /\ render.error = "NotInitialized"
    /\ pool.initPromise = "true"
    /\ pool.terminated # {}

\* C10: every chunk of a render is computed from the configuration snapshot
\* taken when the render started: whatever the pipeline read for a chunk, in a
\* worker or on the control thread, at a first dispatch or at a retry, is the
\* render's snapshot, and so is what every rendered sample was computed from.
SnapshotInputs ==
    /\ \A i \in JobIndices :
          /\ pool.jobs[i].inputs \subseteq {pool.jobs[i].trackConfig}
          /\ \A k \in 1 .. Len(pool.jobs[i].result) :
                pool.jobs[i].result[k].cfg = pool.jobs[i].trackConfig
          /\ i \in CurrentJobs => pool.jobs[i].trackConfig = render.trackConfig
    /\ render.chunkInputs \subseteq {render.trackConfig}
    /\ \A k \in 1 .. Len(render.finalData) :
          render.finalData[k].cfg = render.trackConfig

\* a job was dispatched after the live configuration had been edited, and
\* completed
SnapshotInputsWitness ==
    \E i \in CurrentJobs :
        /\ pool.jobs[i].dispatchedAfterEdit
        /\ pool.jobs[i].state = "resolved"
        /\ live # render.trackConfig.tracks

\* the post-processing passes of kind op that sample x went through
PassesOf(x, op) == {i \in 1 .. Len(x.post) : x.post[i].op = op}

\* C11: in a chunked render, sequential or parallel, no chunk is faded or
\* normalized on its own (not by a worker, not by the control thread), and
\* every sample of the finished render went through peak normalization exactly
\* once and through the fade envelope exactly once when a fade is set (never
\* otherwise), each pass running over the complete assembled signal.
PostProcessedOnce ==
    /\ \A i \in JobIndices :
          \A k \in 1 .. Len(pool.jobs[i].result) : pool.jobs[i].result[k].post = <<>>
    /\ \A i \in 1 .. Len(render.results) :
          \A k \in 1 .. Len(render.results[i]) : render.results[i][k].post = <<>>
    /\ \A k \in 1 .. Len(render.finalResult) : render.finalResult[k].post = <<>>
    /\ (render.status = "done" /\ render.mode \in {"seq", "par"}) =>
          \A k \in 1 .. Len(render.finalData) :
              LET x == render.finalData[k] IN
              /\ Cardinality(PassesOf(x, "norm")) = 1
              /\ Cardinality(PassesOf(x, "fade")) = (IF render.settings.fade THEN 1 ELSE 0)
              /\ \A i \in 1 .. Len(x.post) : x.post[i].over = render.totalSamples

\* a parallel render of several chunks finished with a fade and normalization
PostProcessedOnceWitness ==
    /\ render.status = "done"
    /\ render.mode = "par"
    /\ render.numChunks > 1
    /\ render.settings.fade
    /\ Len(render.finalData) = render.totalSamples
    /\ Len(render.finalData[1].post) = 2

\* C12: a chunked render of L samples with chunks of c samples renders
\* ceil(L / c) chunks, chunk i is min(c, L - i*c) samples long and is written
\* at offset i*c, and once the last chunk is placed the lengths sum to L.
ChunkPartition ==
    /\ calc.numChunks = CeilDiv(calc.totalSamples, calc.chunkSamples)
    /\ calc.chunkIndex >= 1 =>
          /\ calc.lastOffset = (calc.chunkIndex - 1) * calc.chunkSamples
          /\ calc.lastLen = Min(calc.chunkSamples,
                                calc.totalSamples
                                  - (calc.chunkIndex - 1) * calc.chunkSamples)
    /\ calc.chunkIndex = calc.numChunks => calc.outputOffset = calc.totalSamples

\* the length of one clip of the running export, in samples
ClipSamples == (em.settings.duration * SamplesPerTenSec) \div 10

\* C13: the exported signal of clip_count clips (a single clip included) is
\* clip_count * clip_samples samples long, plus, when silence is enabled,
\* (clip_count - 1 + (1 if final silence else 0)) * silence_samples.
ExportedLength ==
    em.outcome = "ok" =>
        Len(em.finalAudio) =
            em.settings.clips * ClipSamples
            + (IF em.settings.silenceEnabled
               THEN (em.settings.clips - 1 + (IF em.settings.finalSilence THEN 1 ELSE 0))
                    * SilenceSamples
               ELSE 0)

\* sample x went through exactly one normalization pass, and that pass ran
\* over a signal of len samples
NormalizedOver(x, len) ==
    /\ Cardinality(PassesOf(x, "norm")) = 1
    /\ \A i \in PassesOf(x, "norm") : x.post[i].over = len

\* C14: with the normalization scope "global" the concatenated signal is
\* normalized once, as a whole, and no clip is normalized on its own; with
\* "per-clip" every clip is normalized on its own before concatenation and
\* the concatenation is not normalized again.
NormalizeScope ==
    (em.outcome = "ok" /\ em.settings.clips > 1) =>
        \A k \in 1 .. Len(em.finalAudio) :
            LET x == em.finalAudio[k] IN
            x # ZeroSample =>
                NormalizedOver(x, IF em.settings.normalizationType = "global"
                                  THEN Len(em.finalAudio) ELSE ClipSamples)

\* C20: for a track with positive gain, once no gain ramp, port message or
\* stop timer is pending, the track's contribution to the mix is zero
\* exactly when the track is muted or not playing.
SilentIffMutedOrStopped ==
    (Settled(track) /\ track.currentGain > 0) =>
        ((Contribution(track) = 0) <=> (track.isMuted \/ ~track.isPlaying))

FilterNodes == {chain.filters[k].node : k \in 1 .. Len(chain.filters)}

\* the nodes connected to node n
Feeders(n) == {e[1] : e \in {d \in chain.edges : d[2] = n}}

\* C16: the connections from chain input to chain output form exactly one
\* serial path through the current filters in list order: the head is fed
\* only by the chain input, filter k only by filter k-1, the output only by
\* the tail, and no node outside the current filters (a removed one) is
\* connected into the path.
SerialTopology ==
    LET n == Len(chain.filters) IN
    /\ Feeders(OutputNode) = {IF n = 0 THEN RoutingNode ELSE chain.filters[n].node}
    /\ \A k \in 1 .. n :
          Feeders(chain.filters[k].node)
            = {IF k = 1 THEN RoutingNode ELSE chain.filters[k - 1].node}
    /\ \A e \in chain.edges :
          e[2] \in FilterNodes \cup {OutputNode} => e[1] \in FilterNodes \cup {RoutingNode}

ForeignParameterRejected ==
    \A k \in 1 .. Len(chain.filters) :
        DOMAIN chain.filters[k].config = {ParamOf(chain.filters[k].isAdvanced)}

\* C19: a value outside a parameter's range is clamped, and the config read
\* back (the config exported for offline rendering included) shows the
\* clamped value: the centre frequency of an advanced filter reads back
\* within its range.
ReadBackClamped ==
    \A k \in 1 .. Len(chain.filters) :
        chain.filters[k].isAdvanced =>
            /\ GetExportConfig(chain)[k].params["centerFreq"]
                 \in CenterFreqMin .. CenterFreqMax
            /\ chain.filters[k].config["centerFreq"] \in CenterFreqMin .. CenterFreqMax

\* C21: when addTrack is called while the manager is playing, the track it
\* creates (unmuted) is playing as soon as the call has returned.
AddStartsWhenPlaying ==
    [][(/\ tm.isPlaying
        /\ tm'.last.op = "addTrack"
        /\ tm'.nextUid = tm.nextUid + 1)
       => (/\ Len(tm'.tracks) = Len(tm.tracks) + 1
           /\ ~tm'.tracks[Len(tm'.tracks)].isMuted
           /\ tm'.tracks[Len(tm'.tracks)].isPlaying)]_vars

AddStartsWhenPlayingWitness ==
    /\ tm.isPlaying
    /\ tm.last.op = "addTrack"
    /\ Len(tm.tracks) = MaxTracks
    /\ tm.tracks[Len(tm.tracks)].uid = tm.nextUid - 1
    /\ tm.tracks[Len(tm.tracks)].isPlaying
    /\ \E i \in 1 .. Len(tm.tracks) - 1 : ~tm.tracks[i].isPlaying

\* C30: when stopAll is the last call made and no startAll is still waiting
\* for the audio context, the manager is not playing and no track is playing.
StopAllWins ==
    (tm.last.op = "stopAll" /\ tm.starting = 0)
        => (/\ ~tm.isPlaying
            /\ \A i \in 1 .. Len(tm.tracks) : ~tm.tracks[i].isPlaying)

\* C29: once the timers of stop() have fired, the messages to the noise
\* processor have been handled and the ramps have ended, the noise processor
\* is active exactly when the track is playing.
NoiseFollowsPlaying ==
    Settled(track) => (track.noise.isActive <=> track.isPlaying)

\* no step that SpecPool is fair to is enabled: no worker holds a message
\* (the guards of WorkerChunkComplete, WorkerChunkError), no retry timer is
\* set (RetryTimer), no worker has yet to report 'initialized'
\* (WorkerInitialized).  From such a state the pool moves only when a caller
\* submits new work.
PoolAtRest ==
    /\ \A w \in Workers : pool.inbox[w] = <<>>
    /\ pool.timers = {}
    /\ \A w \in Workers :
          w \in pool.terminated \/ pool.init[w] \notin {"pending", "timedout"}

\* C28: every job submitted to the pool (processJob has put it among the
\* active jobs) is eventually resolved or rejected, given that workers
\* answer and timers fire.  Stated on the states where all of that has
\* happened: when the pool is at rest no submitted job is still unsettled.
EveryJobSettles ==
    PoolAtRest =>
        \A id \in pool.activeJobs : JobOf(pool, id).state # "pending"

\* C22: every host callback of the STFT processor returns the continue
\* signal and leaves a complete frame of frameSize samples in the output
\* block.  A callback that is given an input block hands out the next
\* frameSize samples of the stream that was queued on the output ring, in
\* the order they were queued and each of them once, if the ring holds at
\* least frameSize samples after this callback's block; otherwise the frame
\* is all zeros and nothing is taken from the ring.  (A callback without an
\* input channel, which the host contract excludes, leaves the zero frame
\* of the host and takes nothing.)  The ring never holds anything but the
\* queued samples not yet handed out.
CompleteFrame ==
    [][(stft' # stft /\ stft'.frameSize = stft.frameSize) =>
          LET frameSize == stft.frameSize
              available == GetRingBufferSize(stft'.outputHead, stft.outputTail)
          IN /\ stft'.returned
             /\ Len(stft'.out) = frameSize
             /\ IF stft'.fed # stft.fed /\ available >= frameSize
                THEN /\ stft'.out = SubSeq(stft'.emitted, stft.delivered + 1,
                                           stft.delivered + frameSize)
                     /\ stft'.delivered = stft.delivered + frameSize
                ELSE /\ stft'.out = Fill(frameSize, 0)
                     /\ stft'.delivered = stft.delivered
             /\ Len(stft'.emitted) - stft'.delivered
                    = GetRingBufferSize(stft'.outputHead, stft'.outputTail)]_vars

\* C22 happens: after frames were handed out from the ring, a callback with
\* 256-sample blocks found only 128 samples on the ring and wrote
\* a frame of zeros
CompleteFrameWitness ==
    /\ stft.returned
    /\ ~stft.raised
    /\ stft.errors = 0
    /\ stft.delivered > 0
    /\ stft.frameSize = 2 * HostBlock
    /\ GetRingBufferSize(stft.outputHead, stft.outputTail) = HostBlock
    /\ stft.out = Fill(stft.frameSize, 0)
    /\ \E k \in 1 .. stft.delivered : stft.emitted[k] # 0

\* C23: with the unity mask and a constant host block of 128 samples, every
\* callback after the warm-up writes the input stream delayed by exactly
\* FFT_SIZE samples: output sample n is input sample n - FFT_SIZE, and no
\* frame of zeros comes in between.  (The warm-up is over when the sample
\* the output is compared with lies under four overlapping windows.)
UnityMaskDelaysByFftSize ==
    [][(/\ stft'.fed = stft.fed + HostBlock
        /\ stft'.frameSize = HostBlock
        /\ stft'.resized = 0
        /\ stft'.errors = 0
        /\ stft'.filterMask = Fill(FFT_SIZE, 1)
        /\ stft'.fed > 2 * FFT_SIZE - HOP_SIZE) =>
          stft'.out = Tuple([i \in 1 .. HostBlock |->
                                InputSample(stft.fed + i - 1 - FFT_SIZE)])]_vars

\* C24: a callback whose block processing raises an error queues a hop of
\* zeros for that block, posts exactly one message through the port,
\* advances the input ring by one hop like any other block, and returns
\* the continue signal.
BlockErrorIsReported ==
    [][(stft'.raised /\ stft'.fed # stft.fed) =>
          /\ stft'.emitted = stft.emitted \o Fill(HOP_SIZE, 0)
          /\ stft'.inputTail = (stft.inputTail + HOP_SIZE) % RING_BUFFER_SIZE
          /\ stft'.returned
          /\ Len(stft'.posted) = Len(stft.posted) + 1]_vars

\* C25: every getDisplayData call on an active analyzer, at whatever pixel
\* width and after whatever changes of width, FFT size, scale or averaging
\* count, returns data of exactly displayWidth values; it never throws.
DisplayDataComplete ==
    analyzer.last.kind \in {"data", "throws"} =>
        /\ analyzer.last.kind = "data"
        /\ analyzer.last.length = analyzer.last.displayWidth

\* C26: for the same track configuration, a chunk of the parallel (worker)
\* path and a chunk of the sequential path are mixed from the same signals:
\* for every enabled track the same filters were applied, in the same
\* order, and the same gain.
ParallelMatchesSequential ==
    (mix.sequential.done /\ mix.parallel.done) =>
        mix.parallel.data = mix.sequential.data

\* C27: in every offline render the mix is the sum of the enabled tracks,
\* each multiplied by exactly its linear gain: a factor of gain / FullGain
\* for every gain of 0 .. FullGain, so that a track of gain 0 adds nothing.
TrackGainApplied ==
    \A rendered \in {mix.direct, mix.sequential, mix.parallel} :
        (rendered.done /\ Len(mix.trackConfig.tracks) > 0) =>
            /\ {rendered.data[k].track : k \in 1 .. Len(rendered.data)}
                   = {t \in 1 .. Len(mix.trackConfig.tracks) :
                          mix.trackConfig.tracks[t].enabled}
            /\ \A k \in 1 .. Len(rendered.data) :
                   rendered.data[k].factor
                       = mix.trackConfig.tracks[rendered.data[k].track].gain

\* C31: whenever the manager is playing and no startAll is waiting for the
\* audio context (stopAll completes within its call), every unmuted track
\* is playing, whenever it was added or unmuted.
UnmutedTracksPlay ==
    (tm.isPlaying /\ tm.starting = 0) =>
        \A i \in 1 .. Len(tm.tracks) :
            ~tm.tracks[i].isMuted => tm.tracks[i].isPlaying

\* the jobs worker w holds: the job of its currentJob field and the jobs of
\* the 'processChunk' messages it has not answered yet
JobsHeldBy(w) ==
    ({pool.currentJob[w]} \ {NoJob})
        \cup {pool.inbox[w][k].jobId : k \in 1 .. Len(pool.inbox[w])}

\* C32: at all times each worker is in at most one of availableWorkers and
\* busyWorkers, occurs at most once in availableWorkers, holds at most one
\* job, and each unfinished job is held by at most one worker.
WorkerBookkeeping ==
    /\ \A w \in Workers :
           /\ ~(w \in Range(pool.availableWorkers) /\ w \in pool.busyWorkers)
           /\ Cardinality({k \in 1 .. Len(pool.availableWorkers) :
                              pool.availableWorkers[k] = w}) <= 1
           /\ Cardinality(JobsHeldBy(w)) <= 1
           /\ Len(pool.inbox[w]) <= 1
    /\ \A id \in pool.activeJobs :
           Cardinality({w \in Workers : id \in JobsHeldBy(w)}) <= 1

WorkerBookkeepingWitness ==
    \E w \in Workers, v \in Workers, id \in pool.activeJobs :
        /\ w # v
        /\ w \in pool.busyWorkers
        /\ JobsHeldBy(w) = {id}
        /\ JobOf(pool, id).retryCount >= 1
        /\ pool.workerErrors[w] >= 1
        /\ pool.availableWorkers = <<v>>

\* the samples queued on the input ring and not yet consumed (every block
\* consumes one hop and queues one hop of output), and the same for the
\* output ring
InputUnconsumed == stft.fed - Len(stft.emitted)

OutputUnconsumed == Len(stft.emitted) - stft.delivered

\* C33: with host blocks of 64, 128 or 256 samples (and changes between
\* them), the unconsumed samples of each ring number at least 0 and fewer
\* than RING_BUFFER_SIZE, the ring's size function gives that number, the
\* next enqueue (a host block, a hop) still fits, and the ring holds
\* exactly the unconsumed samples in order: none was overwritten.
RingsNeverOverrun ==
    /\ InputUnconsumed \in 0 .. RING_BUFFER_SIZE - 1
    /\ OutputUnconsumed \in 0 .. RING_BUFFER_SIZE - 1
    /\ GetRingBufferSize(stft.inputHead, stft.inputTail) = InputUnconsumed
    /\ GetRingBufferSize(stft.outputHead, stft.outputTail) = OutputUnconsumed
    /\ \A f \in FrameSizes : InputUnconsumed + f < RING_BUFFER_SIZE
    /\ OutputUnconsumed + HOP_SIZE < RING_BUFFER_SIZE
    /\ PeekRingBuffer(stft.inputRingBuffer, stft.inputTail, InputUnconsumed)
           = Tuple([k \in 1 .. InputUnconsumed |->
                       InputSample(Len(stft.emitted) + k - 1)])
    /\ PeekRingBuffer(stft.outputRingBuffer, stft.outputTail, OutputUnconsumed)
           = SubSeq(stft.emitted, stft.delivered + 1, Len(stft.emitted))

\* C33 happens: the input ring has wrapped around (more samples were fed
\* than it holds), and the output ring holds samples across its end: its
\* head has wrapped, its tail has not
RingsNeverOverrunWitness ==
    /\ stft.fed > RING_BUFFER_SIZE
    /\ Len(stft.emitted) >= RING_BUFFER_SIZE
    /\ stft.outputHead < stft.outputTail
    /\ OutputUnconsumed > 0
    /\ InputUnconsumed >= FFT_SIZE - HOP_SIZE

\* C34: a callback with an input block processes a block exactly when the
\* input ring, the new samples included, holds at least FFT_SIZE samples.
\* A processed block is computed from the FFT_SIZE oldest samples of the
\* ring, which stay in the ring; exactly HOP_SIZE samples are queued on the
\* output ring and the input tail moves on by exactly HOP_SIZE.  Without a
\* block neither the output head nor the input tail moves.
BlockPerFullFrame ==
    [][(stft'.fed # stft.fed) =>
          LET inputChannel ==
                  Tuple([k \in 1 .. stft.frameSize |-> InputSample(stft.fed + k - 1)])
              input == EnqueueRingBuffer(stft.inputRingBuffer, stft.inputHead,
                                         inputChannel)
              available == InputUnconsumed + stft.frameSize
              blockInput == Tuple([k \in 1 .. FFT_SIZE |->
                                      InputSample(Len(stft.emitted) + k - 1)])
              hop == SubSeq(stft'.emitted, Len(stft.emitted) + 1, Len(stft'.emitted))
          IN /\ stft'.inputRingBuffer = input.buffer
             /\ stft'.inputHead = input.head
             /\ IF available >= FFT_SIZE
                THEN /\ Len(hop) = HOP_SIZE
                     /\ hop = ProcessBlock(stft, blockInput, stft'.raised).hopOutput
                     /\ stft'.outputHead = (stft.outputHead + HOP_SIZE) % RING_BUFFER_SIZE
                     /\ stft'.inputTail = (stft.inputTail + HOP_SIZE) % RING_BUFFER_SIZE
                     /\ PeekRingBuffer(stft'.inputRingBuffer, stft.inputTail, FFT_SIZE)
                            = blockInput
                ELSE /\ hop = <<>>
                     /\ stft'.outputHead = stft.outputHead
                     /\ stft'.inputTail = stft.inputTail
                     /\ stft'.overlapBuffer = stft.overlapBuffer]_vars

\* C34 happens: with 64-sample host blocks, the last callback brought the
\* input ring to FFT_SIZE samples, a block ran (not the first one), its hop
\* was queued and one frame of it handed out
BlockPerFullFrameWitness ==
    /\ stft.frameSize = HostBlock \div 2
    /\ stft.resized = 0
    /\ stft.errors = 0
    /\ Len(stft.emitted) >= 2 * HOP_SIZE
    /\ InputUnconsumed = FFT_SIZE - HOP_SIZE
    /\ OutputUnconsumed = HOP_SIZE - stft.frameSize
    /\ \E k \in 1 .. HOP_SIZE : stft.emitted[Len(stft.emitted) - HOP_SIZE + k] # 0

\* C35: every event the manager's listeners forward for a track carries the
\* id the track has at that moment, its position in the track list, also
\* after earlier tracks were removed and the rest renumbered.
ForwardedIdsCurrent ==
    \A k \in 1 .. Len(tm.forwarded) :
        tm.forwarded[k].trackId = tm.forwarded[k].position

\* C36: no timer callback of stop() ever runs into a released node: also
\* after a playing track was removed or destroyed, the deferred
\* 'stop' step raises no error.
DeferredStopSafe == ~track.uncaught

\* C37: an enabled advanced filter works with the centre frequency that
\* was last set for it (clamped to its range), also when it was set while
\* the filter was disabled and the filter was enabled afterwards.
DisabledEditsApplied ==
    \A k \in 1 .. Len(chain.filters) :
        LET filterData == chain.filters[k]
        IN (filterData.isAdvanced /\ filterData.enabled /\ filterData.manager.isActive
            /\ "centerFreq" \in DOMAIN filterData.config) =>
               filterData.manager.centerFreq
                   = Max(CenterFreqMin, Min(CenterFreqMax, filterData.config["centerFreq"]))

\* C38: while the track is playing and unmuted, its noise processor runs
\* and nothing is in flight, the gain stages between the noise source and
\* the mix bus (the processor's gain, the gain node) multiply to the
\* track's linear gain, before and after setGain calls.  Gains are in
\* hundredths, so the product of two stages is in ten-thousandths.
GainAppliedOnce ==
    (Settled(track) /\ track.isPlaying /\ ~track.isMuted /\ track.noise.isActive
     /\ ~track.destroyed) =>
        Contribution(track) = track.currentGain * FullGain

\* C39: when an export ran with normalization switched off in the dialog, no
\* sample of the exported signal went through a peak-normalization pass.
DisabledNormalizationSkipped ==
    (em.outcome = "ok" /\ ~em.settings.normalizationEnabled) =>
        \A k \in 1 .. Len(em.finalAudio) :
            PassesOf(em.finalAudio[k], "norm") = {}

(***************************************************************************)
(* The noise generator of NoiseProcessor: the Park-Miller seed, drawn with *)
(* Math.random at construction and at every 'start' message and advanced   *)
(* once per sample by process().  Math.random() gives a number r with      *)
(* 0 <= r < 1; the model draws r = k / RandomSteps.  The processor has one *)
(* output channel of NoiseBlock frames per call.                           *)
(***************************************************************************)
multiplier == 16807

modulus == 2147483647

RandomSteps == 4

NoiseBlock == 4

MaxNoiseFrames == 12

RandomDraws == 0 .. RandomSteps - 1

\* Math.floor(Math.random() * 2147483647) for Math.random() = k / RandomSteps
RandomSeed(k) ==
    k * (modulus \div RandomSteps) + (k * (modulus % RandomSteps)) \div RandomSteps

\* (x + y) % m and (a * b) % m for 0 <= x, y, b < m, by doubling, so that no
\* intermediate value exceeds m (the program's doubles hold the product
\* 16807 * seed < 2^53 exactly)
AddMod(x, y, m) == IF x >= m - y THEN x - (m - y) ELSE x + y

RECURSIVE MulMod(_, _, _)
MulMod(a, b, m) ==
    IF a = 0 THEN 0
    ELSE LET half == MulMod(a \div 2, b, m)
             twice == AddMod(half, half, m)
         IN IF a % 2 = 1 THEN AddMod(twice, b, m) ELSE twice

\* NoiseProcessor constructor with its seed; channelData is the output
\* buffer of the last process() call, currentFrame the frames rendered
NoiseProcessor(k) ==
    NewNoiseProcessor @@
    [seed |-> RandomSeed(k), channelData |-> <<>>, currentFrame |-> 0]

\* NoiseProcessor port.onmessage with the re-seed of 'start'
NoiseOnMessage(noise, msg, k) ==
    IF msg.type = "start" THEN [OnMessage(noise, msg) EXCEPT !.seed = RandomSeed(k)]
    ELSE OnMessage(noise, msg)

\* NoiseProcessor.generateNoiseSample: the new seed
GenerateNoiseSample(noise) ==
    [noise EXCEPT !.seed = MulMod(multiplier, @, modulus)]

\* an output sample: silence, or (2 * seed / modulus - 1) * gain, kept as the
\* seed and the gain that determine it
Silence == [silent |-> TRUE]

NoiseSample(seed, gain) == [silent |-> FALSE, seed |-> seed, gain |-> gain]

\* the sample loop of NoiseProcessor.process
RECURSIVE ProcessSamples(_, _)
ProcessSamples(noise, n) ==
    IF n = 0 THEN noise
    ELSE LET done == ProcessSamples(noise, n - 1) IN
         IF done.isActive
         THEN LET next == GenerateNoiseSample(done) IN
              [next EXCEPT !.channelData = Append(@, NoiseSample(next.seed, next.gain))]
         ELSE [done EXCEPT !.channelData = Append(@, Silence)]

\* NoiseProcessor.process for one render quantum
NoiseProcess(noise) ==
    [ProcessSamples([noise EXCEPT !.channelData = <<>>], NoiseBlock)
        EXCEPT !.currentFrame = @ + NoiseBlock]

InitNoise ==
    /\ InitMachine
    /\ budget = QuietBudget
    /\ form = DefaultForm
    /\ calc = NoCalc
    /\ \E k \in RandomDraws : track = [NewTrack(0) EXCEPT !.noise = NoiseProcessor(k)]
    /\ chain = NewChain
    /\ tm = NewTrackManager
    /\ stft = NewProcessor(HostBlock)
    /\ analyzer = NewAnalyzer
    /\ mix = NewMix([tracks |-> <<>>])
    /\ focus = "all"

NoiseMessage ==
    \E type \in {"setGain", "start", "stop"}, value \in GainInputs, k \in RandomDraws :
        /\ track' = [track EXCEPT !.noise = NoiseOnMessage(@, Message(type, value), k)]
        /\ UNCHANGED exceptTrack

NoiseRenderQuantum ==
    /\ track.noise.currentFrame < MaxNoiseFrames
    /\ track' = [track EXCEPT !.noise = NoiseProcess(@)]
    /\ UNCHANGED exceptTrack

NextNoise ==
    \/ NoiseMessage
    \/ NoiseRenderQuantum

SpecNoise == InitNoise /\ [][NextNoise]_vars

\* C40: the seed of the noise generator is in 1 .. 2^31 - 2 after
\* construction, after every re-seed and after every update, the updates
\* behind the samples of the last block included.
SeedInRange ==
    /\ track.noise.seed \in 1 .. modulus - 1
    /\ \A i \in 1 .. Len(track.noise.channelData) :
          ~track.noise.channelData[i].silent =>
              track.noise.channelData[i].seed \in 1 .. modulus - 1
====
